---------------------------- MODULE Spec2Model ----------------------------
(***************************************************************************)
(* State-machine model of the NetSim routing simulator:                    *)
(*   netsim/simulation.py  Node, Link, Packet, Network (tick loop)         *)
(*   netsim/router.py      Router (HELLO liveness, timers, forwarding)     *)
(*   dv.py                 DVRouter (Bellman-Ford incremental update)      *)
(*   ls.py                 LSRouter (LSA flooding, pruning, Dijkstra)      *)
(*                                                                         *)
(* Addresses are strings.  A link is named by its index in Network.links.  *)
(* Python dicts are functions whose DOMAIN is the key set.  Link costs are *)
(* integers in units of 1/scale of the program's cost unit, so that the    *)
(* Euclidean costs of the demonstration topology (1 and sqrt 2) keep their *)
(* order as 5 and 7 with scale 5; the small topologies have scale 1.       *)
(***************************************************************************)
EXTENDS Integers, Sequences, FiniteSets, TLC

VARIABLES
    nlist,          \* Network.nlist: node addresses in iteration order
    links,          \* Network.links: sequence of [end1, end2, cost]
    scale,          \* cost units per program cost unit (fixed per topology)
    proto,          \* "dv": DVRouterNetwork, "ls": LSRouterNetwork
    inject,         \* the (source, destination) pairs RouterNetwork.reset's random.choice is drawn from
    time,           \* Network.time
    pending,        \* Network.pending
    psum,           \* partial sum of phase2 results inside Network.step
    pc,             \* position in StepSchedule; 1 = at the start of a tick
    q12, q21,       \* Link.q12 / Link.q21, per link
    broken,         \* Link.broken, per link
    packets,        \* Node.packets, per node: (link, packet) pairs pulled in phase 1
    transmit_queue, \* Node.transmit_queue, per node
    receive_queue,  \* Node.receive_queue, per node
    neighbors,      \* Router.neighbors, per node: link -> [time, source, cost]
    routes,         \* Router.routes, per node: destination -> link | SelfRoute | NoLink
    spcost,         \* Router.spcost, per node: destination -> cost
    LSA,            \* LSRouter.LSA, per node: origin -> [seqnum, nbrs]
    LSA_seqnum,     \* LSRouter.LSA_seqnum, per node
    clicks,         \* history: number of link clicks so far
    resets,         \* history: number of Network.reset calls after the first
    brokenAt,       \* history: per link, tick of the click that broke it (-1: not broken)
    viaAtBreak,     \* history: per link, the (node, destination) pairs routed over it, by a node
                    \* holding a neighbors entry for it, when it was broken
    rcvd,           \* history: per node, <<origin, seqnum, link>> -> number of LSA arrivals
    seen,           \* history: per node, (origin, seqnum) pairs handed to process_advertisement
    dups,           \* history: per node, already-seen pairs that were handed over again
    dupEffect,      \* history: per node, already-seen pairs whose re-delivery changed LSA or sent
    floods,         \* history: per node, (origin, seqnum) -> number of times the node flooded it
    integLog,       \* history: the DVRouter.integrate calls of the latest phase 2
    evLog,          \* history: the forward, link_failed and process_advertisement calls
                    \* of the latest phase 2, each with the state before and after it
    changedAt,      \* history: tick of the latest change of any router's routes or spcost
    exited,         \* sys.exit was called: the program has terminated
    owed,           \* history: per link and direction, the packets handed to Link.send and
                    \* queued by it that no Link.receive has returned yet, in the order sent
    inOrder,        \* history: every packet pulled so far was the oldest one owed
    stop_time       \* stop_time of the running Network.step call (NoLink: no call is running)

vars == <<nlist, links, scale, proto, inject, time, pending, psum, pc, q12, q21, broken,
          packets, transmit_queue, receive_queue, neighbors, routes, spcost,
          LSA, LSA_seqnum, clicks, resets, brokenAt, viaAtBreak, rcvd, seen,
          dups, dupEffect, floods, integLog, evLog, changedAt, exited, owed, inOrder, stop_time>>

static == <<nlist, links, scale, proto, inject>>

-----------------------------------------------------------------------------
(* Program constants *)

HELLO_INTERVAL == 10
ADVERT_INTERVAL == 30
INFINITY == 32
\* LSRouter.INFINITY is sys.maxsize; any value above every path cost behaves alike
LS_INFINITY == 1000000
\* RouterNetwork.reset injects one DATA packet with start tick 20
DATA_START == 20

SelfRoute == 0      \* the 'Self' sentinel of routes
NoLink == -1        \* Python None where a link or a tick is expected

(* Bounds of the model *)

MaxTime == 46       \* ticks executed by Spec
MaxClicks == 1      \* link clicks in one behaviour of Spec
MaxResets == 1      \* Network.reset calls after the initial one
DemoTime == 27      \* ticks executed by SpecDemo
StaticTime == 62    \* ticks executed by SpecStatic
LongLineLen == 28   \* routers of the congested line
CongestedTime == 100 \* ticks executed by SpecCongested
RoundTripTime == 8  \* ticks executed by SpecRoundTrip
LinksTime == 14     \* ticks executed by SpecLinks
MaxToggles == 2     \* link clicks in one behaviour of SpecLinks
WithdrawTime == 130 \* ticks executed by SpecWithdraw
QuietTime == 100   \* ticks executed by SpecQuiet

-----------------------------------------------------------------------------
(* Dict and list helpers *)

EmptyDict == [k \in {} |-> 0]
Put(f, k, v) == (k :> v) @@ f
Del(f, K) == [x \in (DOMAIN f) \ K |-> f[x]]
Get(f, k, default) == IF k \in DOMAIN f THEN f[k] ELSE default

Range(s) == {s[i] : i \in DOMAIN s}

RECURSIVE SumSeq(_)
SumSeq(s) == IF s = <<>> THEN 0 ELSE Head(s) + SumSeq(Tail(s))

RECURSIVE SelectIdx(_, _, _)
\* indices i of 1..n, in increasing order, with i \in S
SelectIdx(i, n, S) ==
    IF i > n THEN <<>>
    ELSE IF i \in S THEN <<i>> \o SelectIdx(i + 1, n, S)
    ELSE SelectIdx(i + 1, n, S)

-----------------------------------------------------------------------------
(* Topology: Node.links, Router.peer, Router.getlink *)

Nodes == Range(nlist)
LinkIds == DOMAIN links

\* Node.links: the links attached to n, in the order Network.add_link made them
NodeLinks(n) ==
    SelectIdx(1, Len(links), {l \in LinkIds : links[l].end1 = n \/ links[l].end2 = n})

peer(n, l) == IF links[l].end1 = n THEN links[l].end2 ELSE links[l].end1

\* Router.getlink: the first attached link whose other end is nbhr
getlink(n, nbhr) ==
    IF n = nbhr THEN NoLink
    ELSE LET c == {i \in DOMAIN NodeLinks(n) :
                     links[NodeLinks(n)[i]].end1 = nbhr \/ links[NodeLinks(n)[i]].end2 = nbhr}
         IN IF c = {} THEN NoLink
            ELSE NodeLinks(n)[CHOOSE i \in c : \A j \in c : i <= j]

-----------------------------------------------------------------------------
(* Packets: Network.make_packet / Packet.__init__.  sent is history: the   *)
(* tick at which the packet was last put on a link.                        *)

Packet(src, dest, type, start, ad, seqnum, nbrs) ==
    [source |-> src, destination |-> dest, type |-> type, start |-> start,
     finish |-> NoLink, route |-> <<>>, ad |-> ad, seqnum |-> seqnum,
     nbrs |-> nbrs, sent |-> NoLink]

\* Network.duplicate_packet: a fresh packet with the old one's addresses, type
\* and properties, created at the current tick
duplicate_packet(old) ==
    Packet(old.source, old.destination, old.type, time, old.ad, old.seqnum, old.nbrs)

\* Python None where an advertisement's neighbor list is expected
NoNeighbors == <<[nbr |-> "None", cost |-> NoLink]>>

\* history: what a logged call can change, as it is before or after the call
Obs(S) ==
    [nb |-> S.nb, rt |-> S.rt, sc |-> S.sc, lsa |-> S.lsa, q12 |-> S.q12, q21 |-> S.q21,
     rq |-> S.rq, tq |-> S.tq]

-----------------------------------------------------------------------------
(* Link.send (LossyCostLink.send with lossprob = 0, as main.py builds every *)
(* network).  S is the state a node's phase 2 works on: the fields of the   *)
(* node itself and the link queues.                                         *)

\* mutant: the link puts a new packet in front of those already queued
Send_Prepend(S, n, l, p) ==
    IF broken[l] THEN S
    ELSE IF n = links[l].end1
         THEN [S EXCEPT !.q12[l] = <<[p EXCEPT !.sent = time]>> \o @,
                        !.owed[l].d12 = Append(@, [p EXCEPT !.sent = time])]
         ELSE [S EXCEPT !.q21[l] = <<[p EXCEPT !.sent = time]>> \o @,
                        !.owed[l].d21 = Append(@, [p EXCEPT !.sent = time])]

\* mutant: a broken link still queues what is sent on it
Send_IgnoreBroken(S, n, l, p) ==
    IF n = links[l].end1
    THEN [S EXCEPT !.q12[l] = Append(@, [p EXCEPT !.sent = time])]
    ELSE [S EXCEPT !.q21[l] = Append(@, [p EXCEPT !.sent = time])]

Send(S, n, l, p) ==
    IF broken[l] THEN S
    ELSE IF n = links[l].end1
         THEN [S EXCEPT !.q12[l] = Append(@, [p EXCEPT !.sent = time]),
                        !.owed[l].d12 = Append(@, [p EXCEPT !.sent = time])]
         ELSE [S EXCEPT !.q21[l] = Append(@, [p EXCEPT !.sent = time]),
                        !.owed[l].d21 = Append(@, [p EXCEPT !.sent = time])]

RECURSIVE SendEach(_, _, _, _, _, _, _)
\* for link in self.links: link.send(self, make_packet(self.address, self.peer(link), ...))
SendEach(S, n, ls, type, ad, seqnum, nbrs) ==
    IF S = S /\ ls = <<>> THEN S
    ELSE SendEach(Send(S, n, Head(ls),
                       Packet(n, peer(n, Head(ls)), type, time, ad, seqnum, nbrs)),
                  n, Tail(ls), type, ad, seqnum, nbrs)

RECURSIVE FloodEach(_, _, _, _)
\* for link in self.links: link.send(self, self.network.duplicate_packet(p))
FloodEach(S, n, ls, p) ==
    IF S = S /\ ls = <<>> THEN S
    ELSE FloodEach(Send(S, n, Head(ls), duplicate_packet(p)), n, Tail(ls), p)

-----------------------------------------------------------------------------
(* Router base: sendHello, clearStaleHello, clear_routes, forward *)

sendHello(S, n) == SendEach(S, n, NodeLinks(n), "HELLO", EmptyDict, 0, <<>>)

\* mutant: the route is dropped, its cost is kept
clear_routes_KeepCost(S, ls) ==
    [S EXCEPT !.rt = Del(@, {d \in DOMAIN S.rt : S.rt[d] \in ls})]

\* mutant: every learned route is dropped, whatever link it uses
clear_routes_DropAll(S, ls) ==
    LET gone == {d \in DOMAIN S.rt : S.rt[d] # SelfRoute}
    IN [S EXCEPT !.rt = Del(@, gone), !.sc = Del(@, gone)]

\* Router.clear_routes: drop every destination routed over link, cost included
clear_routes(S, ls) ==
    LET gone == {d \in DOMAIN S.rt : S.rt[d] \in ls}
    IN [S EXCEPT !.rt = Del(@, gone), !.sc = Del(@, gone)]

\* mutant: an entry expires only after three silent HELLO intervals
StaleLinks_ThreeIntervals(nb) == {l \in DOMAIN nb : nb[l].time <= time - 3 * HELLO_INTERVAL}

\* the neighbors entries clearStaleHello expires at this tick
StaleLinks(nb) == {l \in DOMAIN nb : nb[l].time <= time - 2 * HELLO_INTERVAL}

\* mutant: a link-state router, too, drops the routes over an expired link
clearStaleHello_ClearsRoutes(S) ==
    LET stale == StaleLinks(S.nb)
        T == [S EXCEPT !.nb = Del(@, stale)]
        R == clear_routes(T, stale)
    IN IF stale = {} THEN R
       ELSE [R EXCEPT !.ev = Append(@, [kind |-> "link_failed", stale |-> stale,
                                        pre |-> Obs(S), post |-> Obs(R)])]

\* Router.clearStaleHello with the subtype's link_failed: DVRouter.link_failed
\* clears the routes over the link, LSRouter inherits Router.link_failed (pass)
clearStaleHello(S) ==
    LET stale == StaleLinks(S.nb)
        T == [S EXCEPT !.nb = Del(@, stale)]
        R == IF proto = "dv" THEN clear_routes(T, stale) ELSE T
    IN IF stale = {} THEN R
       ELSE [R EXCEPT !.ev = Append(@, [kind |-> "link_failed", stale |-> stale,
                                        pre |-> Obs(S), post |-> Obs(R)])]

\* mutant: Node.forward, which sends on a link of its own choice, route or not
forward_AnyLink(S, n, p) ==
    LET T == Send(S, n, NodeLinks(n)[1], p)
    IN [T EXCEPT !.ev = Append(@, [kind |-> "forward", node |-> n, p |-> p,
                                   pre |-> Obs(S), post |-> Obs(T)])]

\* Router.forward
forward(S, n, p) ==
    LET link == Get(S.rt, p.destination, NoLink)
        T == IF link = NoLink \/ link = SelfRoute THEN S ELSE Send(S, n, link, p)
    IN [T EXCEPT !.ev = Append(@, [kind |-> "forward", node |-> n, p |-> p,
                                   pre |-> Obs(S), post |-> Obs(T)])]

\* mutant: the hop is not recorded before the packet is forwarded
NodeProcess_NoHop(S, n, p) ==
    IF p.destination = n
    THEN [S EXCEPT !.rq = Append(@, [p EXCEPT !.finish = time])]
    ELSE forward(S, n, p)

\* Node.process for a packet that is neither HELLO nor ADVERT
NodeProcess(S, n, p) ==
    IF p.destination = n
    THEN [S EXCEPT !.rq = Append(@, [p EXCEPT !.finish = time])]
    ELSE forward(S, n, [p EXCEPT !.route = Append(@, <<n, time>>)])

-----------------------------------------------------------------------------
(* DVRouter *)

DVInf == INFINITY * scale

\* mutant: the cost of the receiving link is not added
NewCost_NoLinkCost(l, adv_cost) ==
    IF adv_cost >= DVInf THEN DVInf ELSE adv_cost

\* new_cost = link.cost + adv_cost, capped at INFINITY
NewCost(l, adv_cost) ==
    IF links[l].cost + adv_cost >= DVInf THEN DVInf ELSE links[l].cost + adv_cost

\* mutant: an unreachable destination keeps its entry, at cost INFINITY
IntegrateDest_StoreInf(n, R, l, dest, adv_cost) ==
    IF dest = n THEN R
    ELSE IF Get(R.rt, dest, NoLink) = l
    THEN IF NewCost(l, adv_cost) # Get(R.sc, dest, DVInf)
         THEN [R EXCEPT !.sc = Put(@, dest, NewCost(l, adv_cost)), !.changed = TRUE]
         ELSE R
    ELSE IF NewCost(l, adv_cost) < Get(R.sc, dest, DVInf)
    THEN [R EXCEPT !.sc = Put(@, dest, NewCost(l, adv_cost)), !.rt = Put(@, dest, l),
                   !.changed = TRUE]
    ELSE R

\* mutant: plain Bellman-Ford, the route changes only for a lower cost
IntegrateDest_OnlyLower(n, R, l, dest, adv_cost) ==
    IF dest # n /\ NewCost(l, adv_cost) < Get(R.sc, dest, DVInf)
    THEN [R EXCEPT !.sc = Put(@, dest, NewCost(l, adv_cost)), !.rt = Put(@, dest, l),
                   !.changed = TRUE]
    ELSE R

\* one iteration of the loop of DVRouter.integrate, for destination dest
IntegrateDest(n, R, l, dest, adv_cost) ==
    LET new_cost == NewCost(l, adv_cost)
        current_cost == Get(R.sc, dest, DVInf)
    IN IF dest = n THEN R
       ELSE IF Get(R.rt, dest, NoLink) = l
       THEN IF new_cost # current_cost
            THEN IF new_cost = DVInf
                 THEN [R EXCEPT !.rt = Del(@, {dest}), !.sc = Del(@, {dest}),
                                !.changed = TRUE]
                 ELSE [R EXCEPT !.sc = Put(@, dest, new_cost), !.changed = TRUE]
            ELSE R
       ELSE IF new_cost < current_cost
       THEN [R EXCEPT !.sc = Put(@, dest, new_cost), !.rt = Put(@, dest, l),
                      !.changed = TRUE]
       ELSE R

RECURSIVE IntegrateLoop(_, _, _, _, _)
\* for dest, adv_cost in adv.items(): the iterations touch disjoint entries,
\* so their order does not matter
IntegrateLoop(n, R, l, adv, todo) ==
    IF R = R /\ todo = {} THEN R
    ELSE IntegrateLoop(n, IntegrateDest(n, R, l, CHOOSE d \in todo : TRUE,
                                        adv[CHOOSE d \in todo : TRUE]),
                       l, adv, todo \ {CHOOSE d \in todo : TRUE})

\* DVRouter.integrate(link, adv): updated routes, spcost and the changed flag
integrate(n, rt, sc, l, adv) ==
    IntegrateLoop(n, [rt |-> rt, sc |-> sc, changed |-> FALSE], l, adv, DOMAIN adv)

\* DVRouter.send_advertisement with make_dv_advertisement (spcost.copy())
DVsend_advertisement(S, n) == SendEach(S, n, NodeLinks(n), "ADVERT", S.sc, 0, <<>>)

\* mutant: every advertisement received is answered with one, changed or not
DVprocess_advertisement_Always(S, n, p, l) ==
    LET R == integrate(n, S.rt, S.sc, l, p.ad)
        T == [S EXCEPT !.rt = R.rt, !.sc = R.sc,
                       !.ilog = Append(@, [node |-> n, link |-> l, adv |-> p.ad,
                                           rt0 |-> S.rt, sc0 |-> S.sc,
                                           rt1 |-> R.rt, sc1 |-> R.sc,
                                           changed |-> R.changed])]
        U == DVsend_advertisement(T, n)
    IN [U EXCEPT !.ev = Append(@, [kind |-> "advert", node |-> n, link |-> l,
                                   pre |-> Obs(S), post |-> Obs(U)])]

\* DVRouter.process_advertisement
DVprocess_advertisement(S, n, p, l) ==
    LET R == integrate(n, S.rt, S.sc, l, p.ad)
        T == [S EXCEPT !.rt = R.rt, !.sc = R.sc,
                       !.ilog = Append(@, [node |-> n, link |-> l, adv |-> p.ad,
                                           rt0 |-> S.rt, sc0 |-> S.sc,
                                           rt1 |-> R.rt, sc1 |-> R.sc,
                                           changed |-> R.changed])]
        U == IF R.changed THEN DVsend_advertisement(T, n) ELSE T
    IN [U EXCEPT !.ev = Append(@, [kind |-> "advert", node |-> n, link |-> l,
                                   pre |-> Obs(S), post |-> Obs(U)])]

-----------------------------------------------------------------------------
(* LSRouter *)

RECURSIVE LiveNbrs(_, _)
LiveNbrs(n, ls) ==
    IF ls = <<>> THEN <<>>
    ELSE IF broken[Head(ls)] THEN LiveNbrs(n, Tail(ls))
    ELSE <<[nbr |-> peer(n, Head(ls)), cost |-> links[Head(ls)].cost]>>
         \o LiveNbrs(n, Tail(ls))

\* LSRouter.make_ls_advertisement: (peer, cost) of every non-broken link
make_ls_advertisement(n) == LiveNbrs(n, NodeLinks(n))

\* mutant: the advertisement is tagged with the sequence number of the round before
send_lsa_OldSeq(S, n) ==
    SendEach([S EXCEPT !.seq = @ + 1], n, NodeLinks(n), "ADVERT", EmptyDict,
             S.seq, make_ls_advertisement(n))

\* LSRouter.send_lsa
send_lsa(S, n) ==
    SendEach([S EXCEPT !.seq = @ + 1], n, NodeLinks(n), "ADVERT", EmptyDict,
             S.seq + 1, make_ls_advertisement(n))

\* the test of clear_stale_lsa: the stored sequence number is older than current - 1
IsStale(stored, current) == stored < current - 1

\* LSRouter.clear_stale_lsa
clear_stale_lsa(S) ==
    [S EXCEPT !.lsa = Del(@, {k \in DOMAIN S.lsa : IsStale(S.lsa[k].seqnum, S.seq)})]

\* LSRouter.send_advertisement
LSsend_advertisement(S, n) ==
    LET T == clear_stale_lsa(send_lsa(S, n))
    IN [T EXCEPT !.ev = Append(@, [kind |-> "send_advertisement", node |-> n,
                                   seq0 |-> S.seq, seq1 |-> T.seq,
                                   pre |-> Obs(S), post |-> Obs(T)])]

\* mutant: an advertisement as old as the saved one passes the test too
IsNewer_OrSame(seq, saved) == seq >= saved

\* the test of process_advertisement: the carried sequence number is newer than the saved one
IsNewer(seq, saved) == seq > saved

\* LSRouter.process_advertisement; an advertisement without a neighbor list
\* that passes the sequence test ends the program (sys.exit)
LSprocess_advertisement(S, n, p, l) ==
    LET key == <<p.source, p.seqnum>>
        saved == IF p.source \in DOMAIN S.lsa THEN S.lsa[p.source].seqnum ELSE -1
        H == [S EXCEPT !.seen = @ \cup {key},
                       !.dups = IF key \in S.seen THEN @ \cup {key} ELSE @,
                       !.rcvd = Put(@, <<p.source, p.seqnum, l>>,
                                    Get(@, <<p.source, p.seqnum, l>>, 0) + 1)]
        T == IF IsNewer(p.seqnum, saved)
             THEN IF p.nbrs # NoNeighbors
                  THEN FloodEach([H EXCEPT !.lsa = Put(@, p.source,
                                                      [seqnum |-> p.seqnum, nbrs |-> p.nbrs]),
                                           !.dupEffect = IF key \in S.seen THEN @ \cup {key}
                                                         ELSE @,
                                           !.floods = Put(@, key, Get(@, key, 0) + 1)],
                                 n, NodeLinks(n), p)
                  ELSE [H EXCEPT !.exit = TRUE]
             ELSE H
    IN IF p.nbrs # NoNeighbors THEN T
       ELSE [T EXCEPT !.ev = Append(@, [kind |-> "malformed", node |-> n, p |-> p,
                                        exit |-> T.exit, pre |-> Obs(S), post |-> Obs(T)])]

Listed(lsa, nodes) ==
    UNION {{e.nbr : e \in Range(lsa[u].nbrs)} : u \in nodes \cap DOMAIN lsa}

RECURSIVE Closure(_, _)
Closure(lsa, nodes) ==
    IF Listed(lsa, nodes) \subseteq nodes THEN nodes
    ELSE Closure(lsa, nodes \cup Listed(lsa, nodes))

\* mutant: every address with a stored advertisement is taken into the graph
get_all_nodes_Stored(n, lsa) == Closure(lsa, {n} \cup DOMAIN lsa)

\* LSRouter.get_all_nodes: the addresses reachable from self through stored LSAs
get_all_nodes(n, lsa) == Closure(lsa, {n})

RECURSIVE RelaxEdges(_, _, _, _)
\* the inner loop of run_dijkstra over graph[u]
RelaxEdges(n, D, u, edges) ==
    IF D = D /\ edges = <<>> THEN D
    ELSE IF D.dist[u] + Head(edges).cost < D.dist[Head(edges).nbr]
    THEN RelaxEdges(n,
                    [dist |-> [x \in DOMAIN D.dist |->
                                  IF x = Head(edges).nbr
                                  THEN D.dist[u] + Head(edges).cost ELSE D.dist[x]],
                     next_hop |-> Put(D.next_hop, Head(edges).nbr,
                                      IF u = n THEN Head(edges).nbr
                                      ELSE Get(D.next_hop, u, ""))],
                    u, Tail(edges))
    ELSE RelaxEdges(n, D, u, Tail(edges))

RECURSIVE DijkstraRuns(_, _, _, _)
\* the while loop of run_dijkstra.  min() over a Python set returns the first
\* minimal element in the set's iteration order, which depends on string
\* hashing: every choice among the nodes of minimal distance is possible.
DijkstraRuns(n, graph, D, unvisited) ==
    IF D = D /\ unvisited = {} THEN {D}
    ELSE UNION {DijkstraRuns(n, graph, RelaxEdges(n, D, m, graph[m]), unvisited \ {m})
                : m \in {x \in unvisited : \A w \in unvisited : D.dist[x] <= D.dist[w]}}

\* LSRouter.run_dijkstra: the (routes, spcost) pairs it can produce
run_dijkstra(n, lsa, nodes) ==
    LET graph == [u \in nodes |-> IF u = n THEN make_ls_advertisement(n)
                                  ELSE IF u \in DOMAIN lsa THEN lsa[u].nbrs ELSE <<>>]
        D0 == [dist |-> [u \in nodes |-> IF u = n THEN 0 ELSE LS_INFINITY],
               next_hop |-> [k \in {} |-> ""]]
    IN {[sc |-> D.dist,
         rt |-> [v \in nodes |-> IF v = n THEN SelfRoute
                                 ELSE IF v \in DOMAIN D.next_hop /\ D.next_hop[v] # ""
                                 THEN getlink(n, D.next_hop[v])
                                 ELSE NoLink]]
        : D \in DijkstraRuns(n, graph, D0, nodes)}

\* mutant: the rebuilt routing table lacks the router's own entry
LSintegrate_NoSelf(S, n) ==
    LET lsa == Put(S.lsa, n, [seqnum |-> S.seq, nbrs |-> make_ls_advertisement(n)])
    IN {[S EXCEPT !.lsa = lsa, !.rt = Del(R.rt, {n}), !.sc = R.sc]
        : R \in run_dijkstra(n, lsa, get_all_nodes(n, lsa))}

\* LSRouter.integrate: the states it can produce
LSintegrate(S, n) ==
    LET lsa == Put(S.lsa, n, [seqnum |-> S.seq, nbrs |-> make_ls_advertisement(n)])
    IN {[S EXCEPT !.lsa = lsa, !.rt = R.rt, !.sc = R.sc]
        : R \in run_dijkstra(n, lsa, get_all_nodes(n, lsa))}

-----------------------------------------------------------------------------
(* One node's share of a tick: Node.phase1, Node.phase2 *)

\* Link.receive(n): the oldest packet queued toward n, if any
Toward(n, l) == IF n = links[l].end1 THEN q21[l] ELSE q12[l]

RECURSIVE Pulled(_, _)
\* Node.phase1: [link.receive(self) for link in self.links], None entries left out
Pulled(n, ls) ==
    IF ls = <<>> THEN <<>>
    ELSE IF Toward(n, Head(ls)) = <<>> THEN Pulled(n, Tail(ls))
    ELSE <<[link |-> Head(ls), p |-> Head(Toward(n, Head(ls)))]>> \o Pulled(n, Tail(ls))

\* history: what is owed once the nodes have pulled the packets pulled[n]
OwedAfterPull(w, pulled) ==
    [l \in DOMAIN w |->
        [d12 |-> IF w[l].d12 # <<>> /\ \E i \in DOMAIN pulled[links[l].end2] :
                                          pulled[links[l].end2][i].link = l
                 THEN Tail(w[l].d12) ELSE w[l].d12,
         d21 |-> IF w[l].d21 # <<>> /\ \E i \in DOMAIN pulled[links[l].end1] :
                                          pulled[links[l].end1][i].link = l
                 THEN Tail(w[l].d21) ELSE w[l].d21]]

\* history: each packet of pulled[n] is the oldest one owed to n on its link
PulledInOrder(w, pulled) ==
    \A m \in DOMAIN pulled : \A i \in DOMAIN pulled[m] :
        LET d == IF m = links[pulled[m][i].link].end1 THEN w[pulled[m][i].link].d21
                 ELSE w[pulled[m][i].link].d12
        IN d # <<>> /\ Head(d) = pulled[m][i].p

\* history: node n pulled pkts, no other node pulled anything
OnlyNode(n, pkts) == [m \in Nodes |-> IF m = n THEN pkts ELSE <<>>]

\* mutant: a HELLO addressed to another node is handled as a data packet
process_HelloForwarded(S, n, p, l) ==
    IF p.type = "HELLO" /\ p.destination = n
    THEN [S EXCEPT !.nb = Put(@, l, [time |-> time, source |-> p.source,
                                     cost |-> links[l].cost])]
    ELSE IF p.type = "ADVERT"
    THEN IF proto = "dv" THEN DVprocess_advertisement(S, n, p, l)
         ELSE LSprocess_advertisement(S, n, p, l)
    ELSE NodeProcess(S, n, p)

\* Router.process
process(S, n, p, l) ==
    IF p.type = "HELLO"
    THEN [S EXCEPT !.nb = Put(@, l, [time |-> time, source |-> p.source,
                                     cost |-> links[l].cost])]
    ELSE IF p.type = "ADVERT"
    THEN IF proto = "dv" THEN DVprocess_advertisement(S, n, p, l)
         ELSE LSprocess_advertisement(S, n, p, l)
    ELSE NodeProcess(S, n, p)

\* one iteration of the loop of Node.phase2: self.process(link_p[1], link_p[0], time),
\* logged with the state before and after it
Processed(S, n, e) ==
    LET T == process(S, n, e.p, e.link)
    IN [T EXCEPT !.ev = Append(@, [kind |-> "process", node |-> n, link |-> e.link,
                                   p |-> e.p, pre |-> Obs(S), post |-> Obs(T)])]

RECURSIVE ProcessAll(_, _, _)
\* the loop of Node.phase2 over self.packets
ProcessAll(S, n, pkts) ==
    IF S = S /\ (pkts = <<>> \/ S.exit) THEN S
    ELSE ProcessAll(Processed(S, n, Head(pkts)), n, Tail(pkts))

RECURSIVE NodeTransmit(_, _)
\* Node.transmit: send the queued packets whose start tick has come
NodeTransmit(S, n) ==
    IF S = S /\ S.tq # <<>> /\ Head(S.tq).start <= time
    THEN NodeTransmit(process([S EXCEPT !.tq = Tail(@)], n, Head(S.tq), NoLink), n)
    ELSE S

\* Router.transmit: HELLO timer, advertisement timer, then Node.transmit
RouterTransmit(S, n) ==
    LET H == IF time % HELLO_INTERVAL = 0 THEN clearStaleHello(sendHello(S, n)) ELSE S
        A == IF time % ADVERT_INTERVAL = 0
             THEN IF proto = "dv" THEN DVsend_advertisement(H, n)
                  ELSE LSsend_advertisement(H, n)
             ELSE H
    IN NodeTransmit(A, n)

\* the tick of LSRouter.transmit at which the routing table is rebuilt
IntegrateTick == proto = "ls" /\ 2 * (time % ADVERT_INTERVAL) = ADVERT_INTERVAL

\* Link.queue_length(n)
queue_length(S, n, l) == IF n = links[l].end1 THEN Len(S.q12[l]) ELSE Len(S.q21[l])

\* mutant: the node counts the packets queued toward it
Phase2Result_Incoming(S, n) ==
    SumSeq([i \in DOMAIN NodeLinks(n) |->
               IF n = links[NodeLinks(n)[i]].end1 THEN Len(S.q21[NodeLinks(n)[i]])
               ELSE Len(S.q12[NodeLinks(n)[i]])])
    + Len(S.tq)

\* the value Node.phase2 returns
Phase2Result(S, n) ==
    SumSeq([i \in DOMAIN NodeLinks(n) |-> queue_length(S, n, NodeLinks(n)[i])])
    + Len(S.tq)

Local(n) ==
    [nb |-> neighbors[n], rt |-> routes[n], sc |-> spcost[n], lsa |-> LSA[n],
     seq |-> LSA_seqnum[n], q12 |-> q12, q21 |-> q21, rq |-> receive_queue[n],
     tq |-> transmit_queue[n], rcvd |-> rcvd[n], seen |-> seen[n], dups |-> dups[n],
     dupEffect |-> dupEffect[n], floods |-> floods[n], ilog |-> <<>>, ev |-> <<>>, exit |-> FALSE,
     owed |-> owed]

\* the states phase 2 of node n can end in, from node state L with pkts pulled
Phase2From(n, L, pkts) ==
    LET P == ProcessAll(L, n, pkts)
        T == IF P.exit THEN P ELSE RouterTransmit(P, n)
    IN IF IntegrateTick /\ ~T.exit THEN LSintegrate(T, n) ELSE {T}

Phase2Ends(n) == Phase2From(n, Local(n), packets[n])

-----------------------------------------------------------------------------
(* Network.step: every node's phase 1, then every node's phase 2 *)

RECURSIVE Tagged(_, _)
Tagged(tag, ns) ==
    IF ns = <<>> THEN <<>> ELSE <<[phase |-> tag, node |-> Head(ns)]>> \o Tagged(tag, Tail(ns))

RECURSIVE Interleaved(_)
Interleaved(ns) ==
    IF ns = <<>> THEN <<>>
    ELSE <<[phase |-> "phase1", node |-> Head(ns)], [phase |-> "phase2", node |-> Head(ns)]>>
         \o Interleaved(Tail(ns))

\* mutant: each node runs phase 1 and phase 2 back to back
StepSchedule_PerNode == Interleaved(nlist)

\* the order in which one tick of Network.step runs the nodes' phases
StepSchedule == Tagged("phase1", nlist) \o Tagged("phase2", nlist)

AtTickStart == pc = 1
AtTickEnd == pc = Len(StepSchedule) + 1

Phase1(n) ==
    /\ ~exited
    /\ pc \in DOMAIN StepSchedule
    /\ StepSchedule[pc] = [phase |-> "phase1", node |-> n]
    /\ packets' = [packets EXCEPT ![n] = Pulled(n, NodeLinks(n))]
    /\ q12' = [l \in LinkIds |-> IF links[l].end2 = n /\ q12[l] # <<>>
                                 THEN Tail(q12[l]) ELSE q12[l]]
    /\ q21' = [l \in LinkIds |-> IF links[l].end1 = n /\ q21[l] # <<>>
                                 THEN Tail(q21[l]) ELSE q21[l]]
    /\ owed' = OwedAfterPull(owed, OnlyNode(n, Pulled(n, NodeLinks(n))))
    /\ inOrder' = (inOrder /\ PulledInOrder(owed, OnlyNode(n, Pulled(n, NodeLinks(n)))))
    /\ pc' = pc + 1
    /\ UNCHANGED <<static, time, pending, psum, broken, transmit_queue, receive_queue,
                   neighbors, routes, spcost, LSA, LSA_seqnum, clicks, resets,
                   brokenAt, viaAtBreak, rcvd, seen, dups, dupEffect, floods, integLog,
                   evLog, changedAt, exited, stop_time>>

Phase2(n) ==
    /\ ~exited
    /\ pc \in DOMAIN StepSchedule
    /\ StepSchedule[pc] = [phase |-> "phase2", node |-> n]
    /\ \E S \in Phase2Ends(n) :
          /\ neighbors' = [neighbors EXCEPT ![n] = S.nb]
          /\ routes' = [routes EXCEPT ![n] = S.rt]
          /\ spcost' = [spcost EXCEPT ![n] = S.sc]
          /\ LSA' = [LSA EXCEPT ![n] = S.lsa]
          /\ LSA_seqnum' = [LSA_seqnum EXCEPT ![n] = S.seq]
          /\ q12' = S.q12
          /\ q21' = S.q21
          /\ receive_queue' = [receive_queue EXCEPT ![n] = S.rq]
          /\ transmit_queue' = [transmit_queue EXCEPT ![n] = S.tq]
          /\ rcvd' = [rcvd EXCEPT ![n] = S.rcvd]
          /\ seen' = [seen EXCEPT ![n] = S.seen]
          /\ dups' = [dups EXCEPT ![n] = S.dups]
          /\ dupEffect' = [dupEffect EXCEPT ![n] = S.dupEffect]
          /\ floods' = [floods EXCEPT ![n] = S.floods]
          /\ integLog' = S.ilog
          /\ evLog' = S.ev
          /\ exited' = S.exit
          /\ owed' = S.owed
          /\ changedAt' = IF S.rt # routes[n] \/ S.sc # spcost[n] THEN time ELSE changedAt
          /\ psum' = psum + Phase2Result(S, n)
    /\ packets' = [packets EXCEPT ![n] = <<>>]
    /\ pc' = pc + 1
    /\ UNCHANGED <<static, time, pending, broken, clicks, resets, brokenAt, viaAtBreak,
                   inOrder, stop_time>>

\* the end of one iteration of the while loop of Network.step
TickEnd(limit) ==
    /\ ~exited
    /\ AtTickEnd
    /\ time < limit
    /\ pending' = psum
    /\ psum' = 0
    /\ time' = time + 1
    /\ pc' = 1
    /\ UNCHANGED <<static, q12, q21, broken, packets, transmit_queue, receive_queue,
                   neighbors, routes, spcost, LSA, LSA_seqnum, clicks, resets,
                   brokenAt, viaAtBreak, rcvd, seen, dups, dupEffect, floods, integLog,
                   evLog, changedAt, exited, owed, inOrder, stop_time>>

-----------------------------------------------------------------------------
(* Network.step as one action: a whole tick, phase 1 of every node and then *)
(* phase 2 of every node in list order                                      *)

\* the link queues after every node's phase 1: each end pulled one packet
AfterPhase1(q) == [l \in LinkIds |-> IF q[l] = <<>> THEN <<>> ELSE Tail(q[l])]

\* the state of the network a tick's phase 2 loop works on
Global ==
    [nb |-> neighbors, rt |-> routes, sc |-> spcost, lsa |-> LSA, seq |-> LSA_seqnum,
     q12 |-> AfterPhase1(q12), q21 |-> AfterPhase1(q21), rq |-> receive_queue,
     tq |-> transmit_queue, rcvd |-> rcvd, seen |-> seen, dups |-> dups,
     dupEffect |-> dupEffect, floods |-> floods, ilog |-> <<>>, ev |-> <<>>, exit |-> FALSE, psum |-> 0,
     owed |-> OwedAfterPull(owed, [n \in Nodes |-> Pulled(n, NodeLinks(n))])]

LocalOf(G, n) ==
    [nb |-> G.nb[n], rt |-> G.rt[n], sc |-> G.sc[n], lsa |-> G.lsa[n],
     seq |-> G.seq[n], q12 |-> G.q12, q21 |-> G.q21, rq |-> G.rq[n],
     tq |-> G.tq[n], rcvd |-> G.rcvd[n], seen |-> G.seen[n], dups |-> G.dups[n],
     dupEffect |-> G.dupEffect[n], floods |-> G.floods[n], ilog |-> <<>>, ev |-> <<>>, exit |-> FALSE,
     owed |-> G.owed]

Merge(G, n, S) ==
    [nb |-> [G.nb EXCEPT ![n] = S.nb], rt |-> [G.rt EXCEPT ![n] = S.rt],
     sc |-> [G.sc EXCEPT ![n] = S.sc], lsa |-> [G.lsa EXCEPT ![n] = S.lsa],
     seq |-> [G.seq EXCEPT ![n] = S.seq], q12 |-> S.q12, q21 |-> S.q21,
     rq |-> [G.rq EXCEPT ![n] = S.rq], tq |-> [G.tq EXCEPT ![n] = S.tq],
     rcvd |-> [G.rcvd EXCEPT ![n] = S.rcvd], seen |-> [G.seen EXCEPT ![n] = S.seen],
     dups |-> [G.dups EXCEPT ![n] = S.dups],
     dupEffect |-> [G.dupEffect EXCEPT ![n] = S.dupEffect],
     floods |-> [G.floods EXCEPT ![n] = S.floods],
     ilog |-> S.ilog, ev |-> S.ev, exit |-> S.exit, owed |-> S.owed,
     psum |-> G.psum + Phase2Result(S, n)]

RECURSIVE Phase2All(_, _, _)
\* for n in self.nlist: pending += n.phase2(self.time)
Phase2All(G, ns, pulled) ==
    IF G = G /\ (ns = <<>> \/ G.exit) THEN {G}
    ELSE UNION {Phase2All(Merge(G, Head(ns), S), Tail(ns), pulled)
                : S \in Phase2From(Head(ns), LocalOf(G, Head(ns)), pulled[Head(ns)])}

\* one iteration of the while loop of Network.step
Step(limit) ==
    /\ ~exited
    /\ AtTickStart
    /\ time < limit
    /\ \E G \in Phase2All(Global, nlist, [n \in Nodes |-> Pulled(n, NodeLinks(n))]) :
          /\ neighbors' = G.nb
          /\ routes' = G.rt
          /\ spcost' = G.sc
          /\ LSA' = G.lsa
          /\ LSA_seqnum' = G.seq
          /\ q12' = G.q12
          /\ q21' = G.q21
          /\ receive_queue' = G.rq
          /\ transmit_queue' = G.tq
          /\ rcvd' = G.rcvd
          /\ seen' = G.seen
          /\ dups' = G.dups
          /\ dupEffect' = G.dupEffect
          /\ floods' = G.floods
          /\ integLog' = G.ilog
          /\ evLog' = G.ev
          /\ exited' = G.exit
          /\ owed' = G.owed
          /\ changedAt' = IF G.rt # routes \/ G.sc # spcost THEN time ELSE changedAt
          /\ pending' = G.psum
    /\ inOrder' = (inOrder /\ PulledInOrder(owed, [n \in Nodes |-> Pulled(n, NodeLinks(n))]))
    /\ time' = time + 1
    /\ UNCHANGED <<static, psum, pc, packets, broken, clicks, resets, brokenAt, viaAtBreak,
                   stop_time>>

-----------------------------------------------------------------------------
(* Between two ticks: Link.click (through Network.click) and Network.reset *)

\* Link.click on link l, the number of clicks of a behaviour kept below limit
LinkClick(l, limit) ==
    /\ ~exited
    /\ AtTickStart
    /\ clicks < limit
    /\ clicks' = clicks + 1
    /\ broken' = [broken EXCEPT ![l] = ~@]
    /\ q12' = IF broken[l] THEN q12 ELSE [q12 EXCEPT ![l] = <<>>]
    /\ q21' = IF broken[l] THEN q21 ELSE [q21 EXCEPT ![l] = <<>>]
    /\ owed' = IF broken[l] THEN owed ELSE [owed EXCEPT ![l] = [d12 |-> <<>>, d21 |-> <<>>]]
    /\ brokenAt' = [brokenAt EXCEPT ![l] = IF broken[l] THEN NoLink ELSE time]
    /\ viaAtBreak' = [viaAtBreak EXCEPT ![l] =
                         IF broken[l] THEN {}
                         ELSE {nd \in Nodes \X Nodes :
                                 /\ l \in DOMAIN neighbors[nd[1]]
                                 /\ nd[2] \in DOMAIN routes[nd[1]]
                                 /\ routes[nd[1]][nd[2]] = l}]
    /\ UNCHANGED <<static, time, pending, psum, pc, packets, transmit_queue,
                   receive_queue, neighbors, routes, spcost, LSA, LSA_seqnum, resets,
                   rcvd, seen, dups, dupEffect, floods, integLog, evLog, changedAt, exited,
                   inOrder, stop_time>>

Click(l) == LinkClick(l, MaxClicks)

\* the DATA packet RouterNetwork.reset creates
DataPacket(pair) == Packet(pair[1], pair[2], "DATA", DATA_START, EmptyDict, 0, <<>>)

\* Network.reset, Node.reset, Router.reset, RouterNetwork.reset
Reset(pair) ==
    /\ ~exited
    /\ AtTickStart
    /\ resets < MaxResets
    /\ time > 0
    /\ resets' = resets + 1
    /\ q12' = [l \in LinkIds |-> <<>>]
    /\ q21' = [l \in LinkIds |-> <<>>]
    /\ transmit_queue' = [n \in Nodes |-> IF n = pair[1] THEN <<DataPacket(pair)>> ELSE <<>>]
    /\ receive_queue' = [n \in Nodes |-> <<>>]
    /\ neighbors' = [n \in Nodes |-> EmptyDict]
    /\ routes' = [n \in Nodes |-> [d \in {n} |-> SelfRoute]]
    /\ spcost' = [n \in Nodes |-> [d \in {n} |-> 0]]
    /\ time' = 0
    /\ pending' = 1
    /\ brokenAt' = [l \in LinkIds |-> IF broken[l] THEN 0 ELSE NoLink]
    /\ viaAtBreak' = [l \in LinkIds |-> {}]
    /\ changedAt' = 0
    /\ owed' = [l \in LinkIds |-> [d12 |-> <<>>, d21 |-> <<>>]]
    /\ UNCHANGED <<static, psum, pc, broken, packets, LSA, LSA_seqnum, clicks,
                   rcvd, seen, dups, dupEffect, floods, integLog, evLog, exited, inOrder,
                   stop_time>>

-----------------------------------------------------------------------------
(* Topologies and the state after construction and the first reset *)

Link(a, b, c) == [end1 |-> a, end2 |-> b, cost |-> c]

\* nodes on a line at x = 0, 8, 9: Euclidean link costs 8 and 1
LineTopology ==
    [nlist |-> <<"A", "B", "C">>,
     links |-> <<Link("A", "B", 8), Link("B", "C", 1)>>,
     scale |-> 1,
     inject |-> {<<"A", "C">>, <<"C", "C">>}]

\* a triangle whose direct link A-C costs more than the path through B
TriangleTopology ==
    [nlist |-> <<"B", "C", "A">>,
     links |-> <<Link("A", "B", 1), Link("B", "C", 1), Link("A", "C", 3)>>,
     scale |-> 1,
     inject |-> {<<"A", "C">>}]

\* main.py's deterministic test network; costs 1 and sqrt(2) in fifths
DemoTopology ==
    [nlist |-> <<"A", "B", "C", "D", "E", "F", "G", "H">>,
     links |-> <<Link("A", "B", 5), Link("A", "E", 5), Link("B", "F", 5),
                 Link("E", "F", 5), Link("C", "D", 5), Link("C", "F", 7),
                 Link("C", "G", 5), Link("D", "G", 7), Link("D", "H", 5),
                 Link("F", "G", 5), Link("G", "H", 5)>>,
     scale |-> 5,
     inject |-> {<<"A", "H">>}]

InitNet(topo, pr, pair) ==
    /\ nlist = topo.nlist
    /\ links = topo.links
    /\ scale = topo.scale
    /\ inject = topo.inject
    /\ proto = pr
    /\ time = 0
    /\ pending = 1
    /\ psum = 0
    /\ pc = 1
    /\ q12 = [l \in DOMAIN topo.links |-> <<>>]
    /\ q21 = [l \in DOMAIN topo.links |-> <<>>]
    /\ broken = [l \in DOMAIN topo.links |-> FALSE]
    /\ packets = [n \in Range(topo.nlist) |-> <<>>]
    /\ transmit_queue = [n \in Range(topo.nlist) |->
                            IF n = pair[1] THEN <<DataPacket(pair)>> ELSE <<>>]
    /\ receive_queue = [n \in Range(topo.nlist) |-> <<>>]
    /\ neighbors = [n \in Range(topo.nlist) |-> EmptyDict]
    /\ routes = [n \in Range(topo.nlist) |-> [d \in {n} |-> SelfRoute]]
    /\ spcost = [n \in Range(topo.nlist) |-> [d \in {n} |-> 0]]
    /\ LSA = [n \in Range(topo.nlist) |-> EmptyDict]
    /\ LSA_seqnum = [n \in Range(topo.nlist) |-> 0]
    /\ clicks = 0
    /\ resets = 0
    /\ brokenAt = [l \in DOMAIN topo.links |-> NoLink]
    /\ viaAtBreak = [l \in DOMAIN topo.links |-> {}]
    /\ rcvd = [n \in Range(topo.nlist) |-> EmptyDict]
    /\ seen = [n \in Range(topo.nlist) |-> {}]
    /\ dups = [n \in Range(topo.nlist) |-> {}]
    /\ dupEffect = [n \in Range(topo.nlist) |-> {}]
    /\ floods = [n \in Range(topo.nlist) |-> EmptyDict]
    /\ integLog = <<>>
    /\ evLog = <<>>
    /\ changedAt = 0
    /\ exited = FALSE
    /\ owed = [l \in DOMAIN links |-> [d12 |-> <<>>, d21 |-> <<>>]]
    /\ inOrder = TRUE
    /\ stop_time = NoLink

Init ==
    \E topo \in {LineTopology, TriangleTopology} : \E pr \in {"dv", "ls"} :
        \E pair \in topo.inject : InitNet(topo, pr, pair)

Next ==
    \/ \E n \in Nodes : Phase1(n)
    \/ \E n \in Nodes : Phase2(n)
    \/ TickEnd(MaxTime)
    \/ \E l \in LinkIds : Click(l)
    \/ \E pair \in inject : Reset(pair)

Spec == Init /\ [][Next]_vars

InitDemo == \E pr \in {"dv", "ls"} : InitNet(DemoTopology, pr, <<"A", "H">>)

NextDemo ==
    \/ \E n \in Nodes : Phase1(n)
    \/ \E n \in Nodes : Phase2(n)
    \/ TickEnd(DemoTime)

SpecDemo == InitDemo /\ [][NextDemo]_vars

\* a line long enough for link-state floods to congest its links: every link
\* delivers one packet per tick and direction, and in every round of 30 ticks
\* each router sends 3 HELLOs, its own LSA and a copy of every LSA it accepts
NodeNames ==
    <<"n01", "n02", "n03", "n04", "n05", "n06", "n07", "n08", "n09", "n10",
      "n11", "n12", "n13", "n14", "n15", "n16", "n17", "n18", "n19", "n20",
      "n21", "n22", "n23", "n24", "n25", "n26", "n27", "n28", "n29", "n30">>

LongLineTopology ==
    [nlist |-> SubSeq(NodeNames, 1, LongLineLen),
     links |-> [i \in 1..(LongLineLen - 1) |-> Link(NodeNames[i], NodeNames[i + 1], 1)],
     scale |-> 1,
     inject |-> {<<NodeNames[1], NodeNames[2]>>}]

InitCongested == InitNet(LongLineTopology, "ls", <<NodeNames[1], NodeNames[2]>>)

NextCongested == Step(CongestedTime)

SpecCongested == InitCongested /\ [][NextCongested]_vars

\* the demonstration network run tick by tick for several advertisement rounds
NextQuiet == Step(QuietTime)

\* a tick of Network.step runs to its end, where time is incremented
TickDone == ~exited /\ time < QuietTime /\ time' = time + 1

\* the loop of Network.step never stops half way: a tick that can run does run
SpecQuiet == InitDemo /\ [][NextQuiet]_vars /\ WF_time(TickDone)

\* the congested line with its last link broken before the first tick: 27
\* routers in a row and one on its own
NextCutOff ==
    \/ Step(CongestedTime)
    \/ time = 0 /\ Click(Len(links))

SpecCutOff == InitCongested /\ [][NextCutOff]_vars

\* DVRouter.integrate on its own: router B of the line, about to run phase 2
\* of tick 1 (no timer fires) with one advertisement pulled from one of its
\* links; its table and the advertisement are drawn from the samples below
AdvCosts == {0, 1, 8, 24, 31}
StoredCosts == {1, 9, 31}

\* the dictionaries over keys with values in vals, entries for fixed kept
Dicts(keys, vals, fixed) ==
    UNION {[(K \cup DOMAIN fixed) -> vals \cup Range(fixed)] : K \in SUBSET keys}

InitIntegrate ==
    /\ nlist = LineTopology.nlist
    /\ links = LineTopology.links
    /\ scale = LineTopology.scale
    /\ inject = LineTopology.inject
    /\ proto = "dv"
    /\ time = 1
    /\ pending = 1
    /\ psum = 0
    /\ pc = Len(LineTopology.nlist) + 2
    /\ q12 = [l \in {1, 2} |-> <<>>]
    /\ q21 = [l \in {1, 2} |-> <<>>]
    /\ broken = [l \in {1, 2} |-> FALSE]
    /\ \E l \in {1, 2} : \E adv \in Dicts({"A", "B", "C"}, AdvCosts, EmptyDict) :
          packets = [n \in {"A", "B", "C"} |->
                       IF n = "B"
                       THEN <<[link |-> l,
                               p |-> [Packet(IF l = 1 THEN "A" ELSE "C", "B", "ADVERT",
                                             0, adv, 0, <<>>) EXCEPT !.sent = 0]]>>
                       ELSE <<>>]
    /\ transmit_queue = [n \in {"A", "B", "C"} |->
                            IF n = "A" THEN <<DataPacket(<<"A", "C">>)>> ELSE <<>>]
    /\ receive_queue = [n \in {"A", "B", "C"} |-> <<>>]
    /\ neighbors = [n \in {"A", "B", "C"} |-> EmptyDict]
    /\ \E rt \in Dicts({"A", "C"}, {1, 2}, [d \in {"B"} |-> SelfRoute]) :
       \E sc \in Dicts({"A", "C"}, StoredCosts, [d \in {"B"} |-> 0]) :
          /\ DOMAIN rt = DOMAIN sc
          /\ rt["B"] = SelfRoute /\ sc["B"] = 0
          /\ \A d \in DOMAIN rt \ {"B"} : rt[d] # SelfRoute /\ sc[d] # 0
          /\ routes = [n \in {"A", "B", "C"} |-> IF n = "B" THEN rt ELSE [d \in {n} |-> SelfRoute]]
          /\ spcost = [n \in {"A", "B", "C"} |-> IF n = "B" THEN sc ELSE [d \in {n} |-> 0]]
    /\ LSA = [n \in {"A", "B", "C"} |-> EmptyDict]
    /\ LSA_seqnum = [n \in {"A", "B", "C"} |-> 0]
    /\ clicks = 0
    /\ resets = 0
    /\ brokenAt = [l \in {1, 2} |-> NoLink]
    /\ viaAtBreak = [l \in {1, 2} |-> {}]
    /\ rcvd = [n \in {"A", "B", "C"} |-> EmptyDict]
    /\ seen = [n \in {"A", "B", "C"} |-> {}]
    /\ dups = [n \in {"A", "B", "C"} |-> {}]
    /\ dupEffect = [n \in {"A", "B", "C"} |-> {}]
    /\ floods = [n \in {"A", "B", "C"} |-> EmptyDict]
    /\ integLog = <<>>
    /\ evLog = <<>>
    /\ changedAt = 0
    /\ exited = FALSE
    /\ owed = [l \in DOMAIN links |-> [d12 |-> <<>>, d21 |-> <<>>]]
    /\ inOrder = TRUE
    /\ stop_time = NoLink

NextIntegrate == \E n \in Nodes : Phase2(n)

SpecIntegrate == InitIntegrate /\ [][NextIntegrate]_vars

\* LSRouter.process_advertisement on its own: router B of the line, about to
\* run phase 2 of tick 1 (no timer fires) with one advertisement pulled from
\* one of its links, with or without a neighbor list; the sequence numbers it
\* holds for A and C and the one the advertisement carries are drawn from the
\* samples below
HeldSeqnums == {NoLink, 1, 2, 3}
CarriedSeqnums == {0, 1, 2, 3}

\* the neighbor list an end of the line advertises
EndNeighbors(o) == <<[nbr |-> "B", cost |-> IF o = "A" THEN 8 ELSE 1]>>

InitMalformed ==
    /\ nlist = LineTopology.nlist
    /\ links = LineTopology.links
    /\ scale = LineTopology.scale
    /\ inject = LineTopology.inject
    /\ proto = "ls"
    /\ time = 1
    /\ pending = 1
    /\ psum = 0
    /\ pc = Len(LineTopology.nlist) + 2
    /\ q12 = [l \in {1, 2} |-> <<>>]
    /\ q21 = [l \in {1, 2} |-> <<>>]
    /\ broken = [l \in {1, 2} |-> FALSE]
    /\ \E l \in {1, 2} : \E seq \in CarriedSeqnums :
       \E nbrs \in {NoNeighbors, EndNeighbors(IF l = 1 THEN "A" ELSE "C")} :
          packets = [n \in {"A", "B", "C"} |->
                       IF n = "B"
                       THEN <<[link |-> l,
                               p |-> [Packet(IF l = 1 THEN "A" ELSE "C", "B", "ADVERT",
                                             0, EmptyDict, seq, nbrs) EXCEPT !.sent = 0]]>>
                       ELSE <<>>]
    /\ transmit_queue = [n \in {"A", "B", "C"} |->
                            IF n = "A" THEN <<DataPacket(<<"A", "C">>)>> ELSE <<>>]
    /\ receive_queue = [n \in {"A", "B", "C"} |-> <<>>]
    /\ neighbors = [n \in {"A", "B", "C"} |-> EmptyDict]
    /\ routes = [n \in {"A", "B", "C"} |-> [d \in {n} |-> SelfRoute]]
    /\ spcost = [n \in {"A", "B", "C"} |-> [d \in {n} |-> 0]]
    /\ \E held \in [{"A", "C"} -> HeldSeqnums] :
          LSA = [n \in {"A", "B", "C"} |->
                   IF n = "B"
                   THEN [o \in {x \in {"A", "C"} : held[x] # NoLink} |->
                           [seqnum |-> held[o], nbrs |-> EndNeighbors(o)]]
                   ELSE EmptyDict]
    /\ LSA_seqnum = [n \in {"A", "B", "C"} |-> 1]
    /\ clicks = 0
    /\ resets = 0
    /\ brokenAt = [l \in {1, 2} |-> NoLink]
    /\ viaAtBreak = [l \in {1, 2} |-> {}]
    /\ rcvd = [n \in {"A", "B", "C"} |-> EmptyDict]
    /\ seen = [n \in {"A", "B", "C"} |-> {}]
    /\ dups = [n \in {"A", "B", "C"} |-> {}]
    /\ dupEffect = [n \in {"A", "B", "C"} |-> {}]
    /\ floods = [n \in {"A", "B", "C"} |-> EmptyDict]
    /\ integLog = <<>>
    /\ evLog = <<>>
    /\ changedAt = 0
    /\ exited = FALSE
    /\ owed = [l \in DOMAIN links |-> [d12 |-> <<>>, d21 |-> <<>>]]
    /\ inOrder = TRUE
    /\ stop_time = NoLink

NextMalformed == \E n \in Nodes : Phase2(n)

SpecMalformed == InitMalformed /\ [][NextMalformed]_vars

\* Router.process on a HELLO on its own: router B of the line, about to run
\* phase 2 of tick 1 (no timer fires) with one HELLO pulled from one of its
\* links, addressed to any node; B holds neighbors entries of tick 0 for any
\* subset of its links and either the start-up tables or routes over both links
InitHello ==
    /\ nlist = LineTopology.nlist
    /\ links = LineTopology.links
    /\ scale = LineTopology.scale
    /\ inject = LineTopology.inject
    /\ proto \in {"dv", "ls"}
    /\ time = 1
    /\ pending = 1
    /\ psum = 0
    /\ pc = Len(LineTopology.nlist) + 2
    /\ q12 = [l \in {1, 2} |-> <<>>]
    /\ q21 = [l \in {1, 2} |-> <<>>]
    /\ broken = [l \in {1, 2} |-> FALSE]
    /\ \E l \in {1, 2} : \E dest \in {"A", "B", "C"} :
          packets = [n \in {"A", "B", "C"} |->
                       IF n = "B"
                       THEN <<[link |-> l,
                               p |-> [Packet(IF l = 1 THEN "A" ELSE "C", dest, "HELLO",
                                             0, EmptyDict, 0, <<>>) EXCEPT !.sent = 0]]>>
                       ELSE <<>>]
    /\ transmit_queue = [n \in {"A", "B", "C"} |->
                            IF n = "A" THEN <<DataPacket(<<"A", "C">>)>> ELSE <<>>]
    /\ receive_queue = [n \in {"A", "B", "C"} |-> <<>>]
    /\ \E K \in SUBSET {1, 2} :
          neighbors = [n \in {"A", "B", "C"} |->
                         IF n = "B"
                         THEN [l \in K |-> [time |-> 0,
                                            source |-> IF l = 1 THEN "A" ELSE "C",
                                            cost |-> LineTopology.links[l].cost]]
                         ELSE EmptyDict]
    /\ \E known \in {{}, {"A", "C"}} :
          /\ routes = [n \in {"A", "B", "C"} |->
                         IF n = "B"
                         THEN [d \in {"B"} \cup known |->
                                 IF d = "B" THEN SelfRoute ELSE IF d = "A" THEN 1 ELSE 2]
                         ELSE [d \in {n} |-> SelfRoute]]
          /\ spcost = [n \in {"A", "B", "C"} |->
                         IF n = "B"
                         THEN [d \in {"B"} \cup known |->
                                 IF d = "B" THEN 0 ELSE IF d = "A" THEN 8 ELSE 1]
                         ELSE [d \in {n} |-> 0]]
    /\ LSA = [n \in {"A", "B", "C"} |-> EmptyDict]
    /\ LSA_seqnum = [n \in {"A", "B", "C"} |-> IF proto = "ls" THEN 1 ELSE 0]
    /\ clicks = 0
    /\ resets = 0
    /\ brokenAt = [l \in {1, 2} |-> NoLink]
    /\ viaAtBreak = [l \in {1, 2} |-> {}]
    /\ rcvd = [n \in {"A", "B", "C"} |-> EmptyDict]
    /\ seen = [n \in {"A", "B", "C"} |-> {}]
    /\ dups = [n \in {"A", "B", "C"} |-> {}]
    /\ dupEffect = [n \in {"A", "B", "C"} |-> {}]
    /\ floods = [n \in {"A", "B", "C"} |-> EmptyDict]
    /\ integLog = <<>>
    /\ evLog = <<>>
    /\ changedAt = 0
    /\ exited = FALSE
    /\ owed = [l \in {1, 2} |-> [d12 |-> <<>>, d21 |-> <<>>]]
    /\ inOrder = TRUE
    /\ stop_time = NoLink

NextHello == \E n \in Nodes : Phase2(n)

SpecHello == InitHello /\ [][NextHello]_vars

\* the distance-vector networks run for several advertisement rounds past a
\* link click
InitWithdraw ==
    \E topo \in {LineTopology, TriangleTopology} : \E pair \in topo.inject :
        InitNet(topo, "dv", pair)

NextWithdraw ==
    \/ Step(WithdrawTime)
    \/ \E l \in LinkIds : Click(l)

SpecWithdraw == InitWithdraw /\ [][NextWithdraw]_vars

\* the small topologies with no link click and no further reset
NextStatic ==
    \/ \E n \in Nodes : Phase1(n)
    \/ \E n \in Nodes : Phase2(n)
    \/ TickEnd(StaticTime)

SpecStatic == Init /\ [][NextStatic]_vars

-----------------------------------------------------------------------------
(* Network.step(count) as the caller sees it: the call sets stop_time, the   *)
(* while loop runs whole ticks until the clock reaches it, the call returns. *)
(* Clicks and resets come between calls.                                     *)

\* every variable but the local stop_time
world == <<static, time, pending, psum, pc, q12, q21, broken, packets, transmit_queue,
           receive_queue, neighbors, routes, spcost, LSA, LSA_seqnum, clicks, resets,
           brokenAt, viaAtBreak, rcvd, seen, dups, dupEffect, floods, integLog, evLog,
           changedAt, exited, owed, inOrder>>

\* the values of count the caller passes
StepCounts == {0, 1, 3}

\* mutant: the loop body runs once before the test
LoopRuns_DoWhile == time <= stop_time

\* the test of the while loop: self.time < stop_time
LoopRuns == time < stop_time

\* stop_time = self.time + count
StepCall(count, limit) ==
    /\ ~exited
    /\ AtTickStart
    /\ stop_time = NoLink
    /\ time + count <= limit
    /\ stop_time' = time + count
    /\ UNCHANGED world

StepLoop(limit) == stop_time # NoLink /\ LoopRuns /\ Step(limit)

\* return self.pending
StepReturn ==
    /\ ~exited
    /\ stop_time # NoLink
    /\ ~LoopRuns
    /\ stop_time' = NoLink
    /\ UNCHANGED world

NextRoundTrip ==
    \/ \E count \in StepCounts : StepCall(count, RoundTripTime)
    \/ StepLoop(RoundTripTime)
    \/ StepReturn
    \/ \E l \in LinkIds : stop_time = NoLink /\ Click(l)
    \/ \E pair \in inject : stop_time = NoLink /\ Reset(pair)

SpecRoundTrip == Init /\ [][NextRoundTrip]_vars

\* whole ticks with links broken and repaired in between
NextLinks ==
    \/ Step(LinksTime)
    \/ \E l \in LinkIds : LinkClick(l, MaxToggles)

SpecLinks == Init /\ [][NextLinks]_vars

-----------------------------------------------------------------------------
(* Reference values the claims compare the routing tables with *)

\* more than any path costs
Unreachable == 1 + SumSeq([l \in LinkIds |-> IF links[l].cost > 1 THEN links[l].cost ELSE 1])

MinOf(S) == CHOOSE x \in S : \A y \in S : x <= y

\* one round of relaxation over the links that are up, weighted by cost(l)
RelaxAll(prev, cost) ==
    IF prev # prev THEN prev ELSE
    [d \in Nodes |->
        MinOf({prev[d]} \cup
              {prev[peer(d, l)] + cost[l] :
                 l \in {k \in LinkIds : /\ ~broken[k]
                                        /\ d \in {links[k].end1, links[k].end2}
                                        /\ prev[peer(d, k)] < Unreachable}})]

RECURSIVE Relaxed(_, _, _)
Relaxed(src, k, cost) ==
    IF k = 0 THEN [d \in Nodes |-> IF d = src THEN 0 ELSE Unreachable]
    ELSE RelaxAll(Relaxed(src, k - 1, cost), cost)

LinkCost == [l \in LinkIds |-> links[l].cost]
OneHop == [l \in LinkIds |-> 1]

\* the cost of a cheapest path from a to b over the links that are up
TrueCost(a, b) == Relaxed(a, Cardinality(Nodes) - 1, LinkCost)[b]
\* the number of links of a shortest path from a to b
HopCount(a, b) == Relaxed(a, Cardinality(Nodes) - 1, OneHop)[b]

\* link l of node n starts a cheapest path from n to d
FirstLinkOfShortest(n, l, d) ==
    /\ l \in LinkIds
    /\ n \in {links[l].end1, links[l].end2}
    /\ ~broken[l]
    /\ TrueCost(peer(n, l), d) < Unreachable
    /\ links[l].cost + TrueCost(peer(n, l), d) = TrueCost(n, d)

\* the tables of router n are exactly the shortest paths of the graph
TablesExact(n) ==
    /\ DOMAIN spcost[n] = {d \in Nodes : TrueCost(n, d) < Unreachable}
    /\ DOMAIN routes[n] = DOMAIN spcost[n]
    /\ \A d \in DOMAIN spcost[n] :
          /\ spcost[n][d] = TrueCost(n, d)
          /\ IF d = n THEN routes[n][d] = SelfRoute
             ELSE FirstLinkOfShortest(n, routes[n][d], d)

\* position of n's phase 2 in the schedule of a tick
Phase2Index(n) == CHOOSE i \in DOMAIN StepSchedule :
                     StepSchedule[i] = [phase |-> "phase2", node |-> n]

AllPackets ==
    UNION {Range(q12[l]) \cup Range(q21[l]) : l \in LinkIds}
    \cup UNION {{e.p : e \in Range(packets[n])} : n \in Nodes}

-----------------------------------------------------------------------------
(* C1 -- two-phase delivery.  A packet a node has pulled from a link in     *)
(* phase 1 of the current tick, and so processes in this tick, was put on   *)
(* the link in an earlier tick: nothing sent during tick t is received or   *)
(* processed during tick t, for every order of the nodes.                   *)

C1_TwoPhaseDelivery ==
    \A n \in Nodes : \A i \in DOMAIN packets[n] : packets[n][i].p.sent < time

\* a packet sent during tick t is pulled in tick t + 1
C1_Witness ==
    \E n \in Nodes : \E i \in DOMAIN packets[n] :
        /\ packets[n][i].p.sent = time - 1
        /\ packets[n][i].p.type = "ADVERT"
        /\ nlist[1] # n

-----------------------------------------------------------------------------
(* C2 -- distance-vector convergence.  With no link break and every true     *)
(* path cost below INFINITY, from tick SettleTick on every DV router holds   *)
(* for every reachable destination the true shortest-path cost and a link    *)
(* that starts a shortest path, and its routes and spcost no longer change   *)
(* from one step to the next.                                                *)

\* a link delivers one packet per tick and direction, so the start-up HELLOs
\* and advertisements take a few ticks to drain: in these networks they have
\* by the second HELLO round
SettleTick == HELLO_INTERVAL

AllCostsBelowInfinity == \A a, b \in Nodes : TrueCost(a, b) < DVInf

C2_DVConvergence ==
    /\ []((proto = "dv" /\ AllCostsBelowInfinity /\ time >= SettleTick)
            => \A n \in Nodes : TablesExact(n))
    /\ [][(proto = "dv" /\ AllCostsBelowInfinity /\ time >= SettleTick)
            => (routes' = routes /\ spcost' = spcost)]_vars

\* the triangle, converged, after the periodic advertisements of ticks 30 and
\* 60 have been integrated: A reaches C through B (cost 2), not over the
\* direct link of cost 3
C2_Witness ==
    /\ proto = "dv"
    /\ AllCostsBelowInfinity
    /\ time > 2 * ADVERT_INTERVAL
    /\ Cardinality(LinkIds) = 3
    /\ \A n \in Nodes : TablesExact(n)
    /\ routes["A"]["C"] = getlink("A", "B")
    /\ spcost["A"]["C"] = 2

-----------------------------------------------------------------------------
(* C3 -- link-state convergence.  As stated, for any fixed loss-free         *)
(* topology: the periodic pruning never removes an LSA that is still needed, *)
(* that is, a router that has processed an LSA of another router of the      *)
(* (connected, unchanging) network still stores an LSA of it; and after the  *)
(* third recomputation (tick 75) every router's tables are the shortest      *)
(* paths of the true graph.                                                  *)

C3_AsStated ==
    proto = "ls" =>
        \A n \in Nodes :
            /\ \A o \in Nodes \ {n} :
                  (\E k \in seen[n] : k[1] = o) => o \in DOMAIN LSA[n]
            /\ 2 * time > 5 * ADVERT_INTERVAL => DOMAIN routes[n] = Nodes

-----------------------------------------------------------------------------
(* C4 -- the 8-node demonstration network.  Run until the network is quiet   *)
(* after the DATA packet's start tick, under either protocol: the DATA       *)
(* packet from A is in H's receive queue with its finish tick set, and its   *)
(* trace records as many forwarding nodes as a shortest path from A to H has *)
(* links, which is 4 (A-B-F-G-H or A-E-F-G-H).                               *)

Quiescent == AtTickStart /\ time > DATA_START /\ pending = 0

Delivered(src, dst) ==
    SelectSeq(receive_queue[dst], LAMBDA p : p.type = "DATA" /\ p.source = src)

C4_DemoDelivery ==
    Quiescent =>
        /\ Len(Delivered("A", "H")) = 1
        /\ Delivered("A", "H")[1].finish > DATA_START
        /\ Len(Delivered("A", "H")[1].route) = HopCount("A", "H")
        /\ HopCount("A", "H") = 4

C4_Witness ==
    /\ Quiescent
    /\ Len(Delivered("A", "H")) = 1
    /\ Len(Delivered("A", "H")[1].route) = 4
    /\ Delivered("A", "H")[1].route[1][1] = "A"
    /\ Delivered("A", "H")[1].route[4][1] = "G"

\* the claim as stated: the recorded hop count is 3
C4_AsStated ==
    Quiescent =>
        /\ Len(Delivered("A", "H")) = 1
        /\ Len(Delivered("A", "H")[1].route) = 3

-----------------------------------------------------------------------------
(* C5 -- the update rule of DVRouter.integrate.  For every call              *)
(* integrate(link, adv) and every advertised destination d other than the    *)
(* router itself, with newCost = min(link.cost + adv[d], INFINITY) and a     *)
(* cost read as INFINITY when absent: if the route to d used link before the *)
(* call, the cost after the call is newCost, higher or lower; otherwise the  *)
(* route and cost of d change only if newCost is below the cost before.      *)

CostIn(sc, d) == IF d \in DOMAIN sc THEN sc[d] ELSE DVInf
RouteIn(rt, d) == IF d \in DOMAIN rt THEN rt[d] ELSE NoLink
CappedSum(l, c) == IF links[l].cost + c < DVInf THEN links[l].cost + c ELSE DVInf

C5_UpdateRule ==
    \A i \in DOMAIN integLog :
        \A d \in DOMAIN integLog[i].adv \ {integLog[i].node} :
            IF RouteIn(integLog[i].rt0, d) = integLog[i].link
            THEN CostIn(integLog[i].sc1, d) = CappedSum(integLog[i].link, integLog[i].adv[d])
            ELSE (\/ RouteIn(integLog[i].rt1, d) # RouteIn(integLog[i].rt0, d)
                  \/ CostIn(integLog[i].sc1, d) # CostIn(integLog[i].sc0, d))
                 => CappedSum(integLog[i].link, integLog[i].adv[d])
                      < CostIn(integLog[i].sc0, d)

\* a higher cost advertised over the link in use was taken over, and in the
\* same call a destination routed over the other link kept its cheaper route
C5_Witness ==
    \E i \in DOMAIN integLog :
        \E d, o \in DOMAIN integLog[i].adv \ {integLog[i].node} :
            /\ RouteIn(integLog[i].rt0, d) = integLog[i].link
            /\ CappedSum(integLog[i].link, integLog[i].adv[d]) > CostIn(integLog[i].sc0, d)
            /\ CappedSum(integLog[i].link, integLog[i].adv[d]) < DVInf
            /\ integLog[i].sc1[d] = CappedSum(integLog[i].link, integLog[i].adv[d])
            /\ RouteIn(integLog[i].rt0, o) \notin {integLog[i].link, NoLink}
            /\ integLog[i].rt1[o] = integLog[i].rt0[o]
            /\ integLog[i].sc1[o] = integLog[i].sc0[o]

-----------------------------------------------------------------------------
(* C6 -- the bound on distance-vector costs.  Every cost a DV router stores  *)
(* and every cost in a DV advertisement is below INFINITY (so never above    *)
(* it, and never equal to it); and whenever integrate computes newCost =     *)
(* INFINITY for a destination whose route uses the receiving link, the       *)
(* destination is gone from both routes and spcost after the call.           *)

C6_CountBound ==
    proto = "dv" =>
        /\ \A n \in Nodes : \A d \in DOMAIN spcost[n] : spcost[n][d] < DVInf
        /\ \A p \in AllPackets : \A d \in DOMAIN p.ad : p.ad[d] < DVInf
        /\ \A i \in DOMAIN integLog :
             \A d \in DOMAIN integLog[i].adv \ {integLog[i].node} :
                 (/\ RouteIn(integLog[i].rt0, d) = integLog[i].link
                  /\ CappedSum(integLog[i].link, integLog[i].adv[d]) = DVInf)
                 => (d \notin DOMAIN integLog[i].rt1 /\ d \notin DOMAIN integLog[i].sc1)

\* counting to infinity ended: a route that was in use over the receiving
\* link reached INFINITY and was removed
C6_Witness ==
    /\ proto = "dv"
    /\ \E i \in DOMAIN integLog :
         \E d \in DOMAIN integLog[i].adv \ {integLog[i].node} :
             /\ RouteIn(integLog[i].rt0, d) = integLog[i].link
             /\ CappedSum(integLog[i].link, integLog[i].adv[d]) = DVInf
             /\ d \notin DOMAIN integLog[i].rt1
             /\ integLog[i].changed

-----------------------------------------------------------------------------
(* C7 -- propagation of a link failure in DV.  If a link is broken before    *)
(* tick t and stays broken, and a router that had heard a HELLO over it      *)
(* routed destination d over it at that moment, then from the end of tick    *)
(* t + 3 * HELLO_INTERVAL on the router has no route to d over that link:    *)
(* d is absent from routes and spcost, or routed over another link.  (The    *)
(* expiry test runs every HELLO_INTERVAL ticks and needs 2 * HELLO_INTERVAL  *)
(* ticks of silence, so the removal can come as late as tick t + 28.)        *)

FailureCleared(window) ==
    \A l \in LinkIds :
        (broken[l] /\ brokenAt[l] # NoLink /\ time > brokenAt[l] + window) =>
            \A nd \in viaAtBreak[l] :
                \/ nd[2] \notin DOMAIN routes[nd[1]] /\ nd[2] \notin DOMAIN spcost[nd[1]]
                \/ nd[2] \in DOMAIN routes[nd[1]] /\ routes[nd[1]][nd[2]] # l

-----------------------------------------------------------------------------
(* C8 -- termination of the LS flood.  As stated: every router, the          *)
(* neighbours of the origin included, receives an LSA (origin, seqnum) at    *)
(* most once over each of its links.                                         *)

C8_AtMostOncePerLink ==
    proto = "ls" =>
        \A n \in Nodes : \A k \in DOMAIN rcvd[n] : rcvd[n][k] <= 1

-----------------------------------------------------------------------------
(* C9 -- suppression of duplicates in LS.  As stated: a router that has      *)
(* processed an LSA (origin, seqnum) neither stores nor re-floods a later    *)
(* copy with the same origin and seqnum, whatever advertisement rounds and   *)
(* prunings of its own lie in between.                                       *)

C9_DuplicateSuppression ==
    proto = "ls" => \A n \in Nodes : dupEffect[n] = {}

-----------------------------------------------------------------------------
(* C10 -- routes and spcost agree.  For both protocols, every router and     *)
(* every destination: routes holds a usable link (or Self) for d exactly     *)
(* when spcost holds a finite cost for d.                                    *)

Infinite == IF proto = "dv" THEN DVInf ELSE LS_INFINITY

C10_TablesAgree ==
    \A n \in Nodes : \A d \in Nodes :
        (d \in DOMAIN routes[n] /\ routes[n][d] # NoLink)
        <=> (d \in DOMAIN spcost[n] /\ spcost[n][d] < Infinite)

\* a DV router that dropped the routes over a failed link, cost included
C10_Witness ==
    /\ proto = "dv"
    /\ \E l \in LinkIds :
          /\ broken[l]
          /\ \E nd \in viaAtBreak[l] :
                nd[2] \notin DOMAIN routes[nd[1]] /\ nd[2] \notin DOMAIN spcost[nd[1]]
    /\ \E n \in Nodes : Cardinality(DOMAIN routes[n]) > 1

-----------------------------------------------------------------------------
(* C11 -- lifecycle on reset.  As stated: right after Network.reset(), before *)
(* any tick has run, every router's protocol state is cleared and reseeded   *)
(* with its own address only: neighbors is empty, routes is {self: Self},    *)
(* spcost is {self: 0}, and a link-state router stores no advertisement of   *)
(* another node.                                                             *)

\* the state Network.reset leaves, no tick run since
AfterReset == resets > 0 /\ time = 0 /\ AtTickStart

FreshTables(n) ==
    /\ DOMAIN neighbors[n] = {}
    /\ routes[n] = [d \in {n} |-> SelfRoute]
    /\ spcost[n] = [d \in {n} |-> 0]

C11_AsStated ==
    AfterReset =>
        \A n \in Nodes :
            /\ FreshTables(n)
            /\ proto = "ls" => DOMAIN LSA[n] \subseteq {n}

-----------------------------------------------------------------------------
(* C12 -- round trip.  After any steps and link clicks, reset() followed by  *)
(* step(0): every router's routes is {self: Self} and its spcost {self: 0}, *)
(* as freshly constructed, the clock is 0, and step(0) runs nothing -- no    *)
(* packet is processed and no timer fires, so no HELLO or advertisement is   *)
(* on any link, the injected DATA packet is still in its source's transmit   *)
(* queue, and the pending count is the 1 that reset stored.  A step call     *)
(* whose stop_time the clock has reached changes nothing before it returns.  *)

NothingRun ==
    /\ \A l \in LinkIds : q12[l] = <<>> /\ q21[l] = <<>>
    /\ \A n \in Nodes : /\ receive_queue[n] = <<>>
                         /\ packets[n] = <<>>
                         /\ \A i \in DOMAIN transmit_queue[n] :
                                transmit_queue[n][i].type = "DATA"
    /\ Cardinality({n \in Nodes : transmit_queue[n] # <<>>}) = 1
    /\ pending = 1

C12_RoundTrip ==
    /\ [](AfterReset => /\ \A n \in Nodes : FreshTables(n)
                        /\ time = 0
                        /\ NothingRun)
    /\ [][(stop_time # NoLink /\ stop_time <= time) => UNCHANGED world]_vars

\* inside step(0), called right after a reset that followed ticks and a click
C12_Witness ==
    /\ AfterReset
    /\ stop_time = 0
    /\ clicks > 0
    /\ \A n \in Nodes : FreshTables(n)

-----------------------------------------------------------------------------
(* C13 -- broken links.  In every reachable state both queues of a broken    *)
(* link are empty, whatever was sent on it while it was broken; and a click  *)
(* on a link, breaking or repairing it, leaves both of its queues empty.     *)

C13_BrokenLink ==
    /\ [](\A l \in LinkIds : broken[l] => q12[l] = <<>> /\ q21[l] = <<>>)
    /\ [][\A l \in LinkIds :
             broken'[l] # broken[l] => q12'[l] = <<>> /\ q21'[l] = <<>>]_vars

\* a link just repaired: it was broken while the HELLOs of tick 10 were sent
\* on it (the last HELLO its first end heard is older), and its queues are empty
C13_Witness ==
    \E l \in LinkIds :
        /\ ~broken[l]
        /\ clicks = 2
        /\ time > HELLO_INTERVAL + 1
        /\ l \in DOMAIN neighbors[links[l].end1]
        /\ neighbors[links[l].end1][l].time < HELLO_INTERVAL
        /\ q12[l] = <<>> /\ q21[l] = <<>>

-----------------------------------------------------------------------------
(* C14 -- direction of queue_length.  As stated: between ticks, for every    *)
(* link and each of its two ends n, queue_length(n) is the number of packets *)
(* queued toward n, that is, the number of packets successive receive(n)     *)
(* calls would return.                                                       *)

\* the number of packets successive Link.receive(n) calls return
Receivable(n, l) == Len(Toward(n, l))

C14_AsStated ==
    AtTickStart =>
        \A l \in LinkIds : \A n \in {links[l].end1, links[l].end2} :
            queue_length([q12 |-> q12, q21 |-> q21], n, l) = Receivable(n, l)

-----------------------------------------------------------------------------
(* C15 -- the pending report.  When the last node's phase 2 of a tick has    *)
(* run, the sum of the phase 2 results, which Network.step stores in pending *)
(* and returns, is the number of packets in all link queues, both            *)
(* directions, plus the packets in all transmit queues, as they are at that  *)
(* moment -- although each node's share was taken during its own phase 2.    *)

InFlight ==
    SumSeq([l \in LinkIds |-> Len(q12[l]) + Len(q21[l])])
    + SumSeq([i \in DOMAIN nlist |-> Len(transmit_queue[nlist[i]])])

C15_PendingReport == AtTickEnd => psum = InFlight

\* the end of a tick in which a node that ran later queued a packet toward
\* the first node, whose share had been taken before, with a DATA packet
\* still waiting in a transmit queue
C15_Witness ==
    /\ AtTickEnd
    /\ psum = InFlight
    /\ psum > 4
    /\ \E n \in Nodes : transmit_queue[n] # <<>>
    /\ \E l \in LinkIds : \E i \in DOMAIN Toward(nlist[1], l) :
          Toward(nlist[1], l)[i].sent = time

-----------------------------------------------------------------------------
(* C16 -- a malformed advertisement is fatal.  As stated: whenever a         *)
(* link-state router processes an advertisement without a neighbor list,     *)
(* whatever its sequence number is relative to the one held for its origin,  *)
(* the program terminates, the router's LSA map is as before and nothing has *)
(* been put on any link.                                                     *)

C16_AsStated ==
    \A i \in DOMAIN evLog :
        evLog[i].kind = "malformed" =>
            /\ exited
            /\ evLog[i].post.lsa = evLog[i].pre.lsa
            /\ evLog[i].post.q12 = evLog[i].pre.q12
            /\ evLog[i].post.q21 = evLog[i].pre.q21

-----------------------------------------------------------------------------
(* Reading the log of calls.  The log of a phase 2 is read before the tick   *)
(* ends, while the clock and the links are as they were during the calls.    *)

\* a phase 2 of the current tick has run: the log is that of the latest one
LogCurrent == pc > Len(nlist) + 1

\* what the call of event e appended to the queue of link l that leaves node n
QueueFrom(O, n, l) == IF n = links[l].end1 THEN O.q12[l] ELSE O.q21[l]
Appended(e, n, l) ==
    SubSeq(QueueFrom(e.post, n, l), Len(QueueFrom(e.pre, n, l)) + 1,
           Len(QueueFrom(e.post, n, l)))
\* the call of event e only appended to the queues, and only to those leaving n
OnlyAppendsFrom(e, n) ==
    \A l \in LinkIds :
        /\ SubSeq(e.post.q12[l], 1, Len(e.pre.q12[l])) = e.pre.q12[l]
        /\ SubSeq(e.post.q21[l], 1, Len(e.pre.q21[l])) = e.pre.q21[l]
        /\ n # links[l].end1 => e.post.q12[l] = e.pre.q12[l]
        /\ n # links[l].end2 => e.post.q21[l] = e.pre.q21[l]
QueuesSame(e) == e.post.q12 = e.pre.q12 /\ e.post.q21 = e.pre.q21
TablesSame(e) == e.post.rt = e.pre.rt /\ e.post.sc = e.pre.sc /\ e.post.nb = e.pre.nb

-----------------------------------------------------------------------------
(* C17 -- forwarding.  Whenever a router forwards a packet that is neither   *)
(* HELLO nor ADVERT and not addressed to itself: its routes, spcost and      *)
(* neighbors and its node queues are as before; if routes has no usable      *)
(* entry for the destination, no link queue has changed (the packet is       *)
(* dropped and the run goes on); otherwise the packet has been handed to the *)
(* link routes[destination] and to no other, which queues it toward its      *)
(* other end unless it is broken.                                            *)

C17_ForwardOrDrop ==
    LogCurrent =>
        \A i \in DOMAIN evLog :
            evLog[i].kind = "forward" =>
                /\ evLog[i].p.type \notin {"HELLO", "ADVERT"}
                /\ evLog[i].p.destination # evLog[i].node
                /\ TablesSame(evLog[i])
                /\ evLog[i].post.rq = evLog[i].pre.rq
                /\ evLog[i].post.tq = evLog[i].pre.tq
                /\ ~exited
                /\ OnlyAppendsFrom(evLog[i], evLog[i].node)
                /\ \A l \in LinkIds :
                      Appended(evLog[i], evLog[i].node, l) =
                          IF l = RouteIn(evLog[i].pre.rt, evLog[i].p.destination)
                             /\ ~broken[l]
                          THEN <<[evLog[i].p EXCEPT !.sent = time]>>
                          ELSE <<>>

\* a DATA packet was dropped by its source for want of a route
C17_Witness ==
    /\ LogCurrent
    /\ \E i \in DOMAIN evLog :
          /\ evLog[i].kind = "forward"
          /\ evLog[i].p.type = "DATA"
          /\ RouteIn(evLog[i].pre.rt, evLog[i].p.destination) = NoLink
          /\ QueuesSame(evLog[i])
          /\ time >= DATA_START

-----------------------------------------------------------------------------
(* C18 -- propagation of a withdrawal in DV.  As stated: once links are      *)
(* broken for good, every router that can no longer reach a destination d    *)
(* ends up with d absent from routes and spcost.  The timers have period     *)
(* ADVERT_INTERVAL, so tables that no router has changed for two whole       *)
(* advertisement rounds after the break have reached their final value: by   *)
(* then every unreachable destination must be absent.                        *)

\* a link is broken, and for two advertisement rounds no link was clicked and
\* no router changed its routes or spcost
SettledAfterBreak ==
    /\ AtTickStart
    /\ \E l \in LinkIds : broken[l]
    /\ \A l \in LinkIds : broken[l] => time >= brokenAt[l] + 2 * ADVERT_INTERVAL
    /\ time >= changedAt + 2 * ADVERT_INTERVAL

C18_AsStated ==
    (proto = "dv" /\ SettledAfterBreak) =>
        \A n \in Nodes : \A d \in Nodes :
            TrueCost(n, d) >= Unreachable =>
                d \notin DOMAIN routes[n] /\ d \notin DOMAIN spcost[n]

-----------------------------------------------------------------------------
(* C19 -- triggered update in DV.  Whenever a DV router has processed an     *)
(* advertisement: if the call changed an entry of its routes or spcost, it   *)
(* handed exactly one new advertisement to each of its links, carrying its   *)
(* spcost as it is after the update (a link that is up queues it toward the  *)
(* other end); if the call changed nothing, no queue changed.                *)

TablesChanged(e) == e.post.rt # e.pre.rt \/ e.post.sc # e.pre.sc

IsTriggeredAdvert(x, e, l) ==
    /\ x.type = "ADVERT"
    /\ x.source = e.node
    /\ x.destination = peer(e.node, l)
    /\ x.ad = e.post.sc
    /\ x.sent = time

C19_TriggeredUpdate ==
    (proto = "dv" /\ LogCurrent) =>
        \A i \in DOMAIN evLog :
            evLog[i].kind = "advert" =>
                /\ OnlyAppendsFrom(evLog[i], evLog[i].node)
                /\ evLog[i].post.nb = evLog[i].pre.nb
                /\ \A l \in Range(NodeLinks(evLog[i].node)) :
                      IF TablesChanged(evLog[i]) /\ ~broken[l]
                      THEN /\ Len(Appended(evLog[i], evLog[i].node, l)) = 1
                           /\ IsTriggeredAdvert(Appended(evLog[i], evLog[i].node, l)[1],
                                                 evLog[i], l)
                      ELSE Appended(evLog[i], evLog[i].node, l) = <<>>

\* in one phase 2 a router with two links processed an advertisement that
\* changed its tables, and sent on both links, and one that changed nothing
C19_Witness ==
    /\ proto = "dv"
    /\ LogCurrent
    /\ \E i, j \in DOMAIN evLog :
          /\ evLog[i].kind = "advert" /\ evLog[j].kind = "advert"
          /\ TablesChanged(evLog[i])
          /\ Cardinality({l \in LinkIds :
                            Appended(evLog[i], evLog[i].node, l) # <<>>}) = 2
          /\ ~TablesChanged(evLog[j])
          /\ QueuesSame(evLog[j])

-----------------------------------------------------------------------------
(* C20 -- link_failed in DV.  Whenever neighbor entries expire on a DV       *)
(* router: exactly the destinations whose route used an expired link are     *)
(* gone from routes and from spcost, every other entry, the router's own     *)
(* included, is as before (no replacement route), the expired entries are    *)
(* gone from neighbors, and no queue has changed (nothing is sent because of *)
(* the failure).                                                             *)

RoutedOver(rt, ls) == {d \in DOMAIN rt : rt[d] \in ls}

C20_LinkFailed ==
    (proto = "dv" /\ LogCurrent) =>
        \A i \in DOMAIN evLog :
            evLog[i].kind = "link_failed" =>
                /\ DOMAIN evLog[i].post.rt
                      = DOMAIN evLog[i].pre.rt \ RoutedOver(evLog[i].pre.rt, evLog[i].stale)
                /\ DOMAIN evLog[i].post.sc
                      = DOMAIN evLog[i].pre.sc \ RoutedOver(evLog[i].pre.rt, evLog[i].stale)
                /\ \A d \in DOMAIN evLog[i].post.rt :
                      evLog[i].post.rt[d] = evLog[i].pre.rt[d]
                /\ \A d \in DOMAIN evLog[i].post.sc :
                      evLog[i].post.sc[d] = evLog[i].pre.sc[d]
                /\ DOMAIN evLog[i].post.nb = DOMAIN evLog[i].pre.nb \ evLog[i].stale
                /\ QueuesSame(evLog[i])
                /\ evLog[i].post.tq = evLog[i].pre.tq
                /\ evLog[i].post.rq = evLog[i].pre.rq

\* a router lost the destinations behind an expired link and kept a route
\* over its other link
C20_Witness ==
    /\ proto = "dv"
    /\ LogCurrent
    /\ \E i \in DOMAIN evLog :
          /\ evLog[i].kind = "link_failed"
          /\ RoutedOver(evLog[i].pre.rt, evLog[i].stale) # {}
          /\ \E d \in DOMAIN evLog[i].post.rt : evLog[i].post.rt[d] # SelfRoute

-----------------------------------------------------------------------------
(* C21 -- the self entry.  In every reachable state, under both protocols,   *)
(* every router's spcost maps its own address to 0 and its routes maps its   *)
(* own address to Self; and the same holds before and after every logged     *)
(* call of a phase 2: no advertisement processed (the neighbours' list the   *)
(* router's own address, at whatever cost), no link failure and no           *)
(* recomputation changes or removes the two entries.                         *)

SelfEntry(rt, sc, n) ==
    /\ n \in DOMAIN rt /\ rt[n] = SelfRoute
    /\ n \in DOMAIN sc /\ sc[n] = 0

\* the node whose phase 2 wrote the log
LogNode == StepSchedule[pc - 1].node

C21_SelfEntry ==
    /\ \A n \in Nodes : SelfEntry(routes[n], spcost[n], n)
    /\ LogCurrent =>
          \A i \in DOMAIN evLog :
              /\ SelfEntry(evLog[i].pre.rt, evLog[i].pre.sc, LogNode)
              /\ SelfEntry(evLog[i].post.rt, evLog[i].post.sc, LogNode)

\* a link-state router that has rebuilt its tables from stored advertisements
\* of which one lists the router itself, and has learnt a route from them
C21_Witness ==
    /\ proto = "ls"
    /\ 2 * time > ADVERT_INTERVAL
    /\ \E n \in Nodes :
          /\ SelfEntry(routes[n], spcost[n], n)
          /\ \E o \in DOMAIN LSA[n] \ {n} :
                \E i \in DOMAIN LSA[n][o].nbrs : LSA[n][o].nbrs[i].nbr = n
          /\ \E d \in DOMAIN routes[n] : routes[n][d] \notin {SelfRoute, NoLink}

-----------------------------------------------------------------------------
(* C22 -- link-state recomputation.  When LSRouter.integrate has run on a    *)
(* router, its spcost and routes are a function of the advertisements it     *)
(* stores and of its own links that are up, whatever the tables held before: *)
(* in the directed graph whose edges leave the router over its non-broken    *)
(* links and leave every other address as its stored advertisement lists,    *)
(* every address reachable from the router has its minimum path cost in      *)
(* spcost and, in routes, a non-broken link to the first hop of a            *)
(* minimum-cost path (Self for the router); no other address has an entry;   *)
(* and running integrate once more gives the same tables.                    *)

\* the edges <<from, to, cost>> of the graph router n computes on
GraphEdges(n, lsa) ==
    {<<n, peer(n, l), links[l].cost>> : l \in {k \in Range(NodeLinks(n)) : ~broken[k]}}
    \cup UNION {{<<u, lsa[u].nbrs[i].nbr, lsa[u].nbrs[i].cost>> : i \in DOMAIN lsa[u].nbrs}
                : u \in DOMAIN lsa \ {n}}

\* one round of relaxation over the edges E
GraphRelax(prev, E) ==
    IF prev # prev THEN prev ELSE
    [d \in Nodes |->
        MinOf({prev[d]} \cup
              {prev[e[1]] + e[3] : e \in {x \in E : x[2] = d /\ prev[x[1]] < LS_INFINITY}})]

RECURSIVE GraphDist(_, _, _)
GraphDist(src, E, k) ==
    IF k = 0 THEN [d \in Nodes |-> IF d = src THEN 0 ELSE LS_INFINITY]
    ELSE GraphRelax(GraphDist(src, E, k - 1), E)

\* the minimum path cost from src to d over the edges E (LS_INFINITY: no path)
GraphCost(src, E, d) == GraphDist(src, E, Cardinality(Nodes) - 1)[d]

\* the tables of router n are the shortest paths of the graph of its stored LSAs
RecomputedFrom(n, E) ==
    /\ DOMAIN spcost[n] = {v \in Nodes : GraphCost(n, E, v) < LS_INFINITY}
    /\ DOMAIN routes[n] = DOMAIN spcost[n]
    /\ \A v \in DOMAIN spcost[n] :
          /\ spcost[n][v] = GraphCost(n, E, v)
          /\ IF v = n THEN routes[n][v] = SelfRoute
             ELSE /\ routes[n][v] \in Range(NodeLinks(n))
                  /\ ~broken[routes[n][v]]
                  /\ links[routes[n][v]].cost + GraphCost(peer(n, routes[n][v]), E, v)
                       = GraphCost(n, E, v)

\* the recomputation is the last call of the phase 2 that has just run
JustRecomputed == proto = "ls" /\ IntegrateTick /\ LogCurrent

C22_Recomputation ==
    JustRecomputed =>
        /\ RecomputedFrom(LogNode, GraphEdges(LogNode, LSA[LogNode]))
        /\ \A T \in LSintegrate(Local(LogNode), LogNode) :
              /\ T.rt = routes[LogNode]
              /\ T.sc = spcost[LogNode]
              /\ T.lsa = LSA[LogNode]

\* the second recomputation of a router, after a link broke: it still stores
\* the advertisement of an address that its graph no longer reaches, which has
\* lost its entries, and it keeps a route to another router
C22_Witness ==
    /\ JustRecomputed
    /\ time > ADVERT_INTERVAL
    /\ \E l \in LinkIds : broken[l]
    /\ \E d \in DOMAIN LSA[LogNode] :
          d \notin DOMAIN routes[LogNode] /\ d \notin DOMAIN spcost[LogNode]
    /\ \E d \in DOMAIN routes[LogNode] : routes[LogNode][d] \notin {SelfRoute, NoLink}

-----------------------------------------------------------------------------
(* C23 -- link-state advertise and prune.  In every tick whose number is a   *)
(* multiple of ADVERT_INTERVAL the advertisement timer of a link-state       *)
(* router fires once: the sequence counter grows by exactly 1; every link of *)
(* the router is handed one advertisement, tagged with the new sequence      *)
(* number and listing exactly the peers and costs of the router's non-broken *)
(* links (a link that is up queues it toward its other end, a broken link    *)
(* drops it); and afterwards the LSA map holds no entry with a sequence      *)
(* number below the counter minus 1, the entries kept being as before.  No   *)
(* step of the program, a reset included, decreases a sequence counter.      *)

AdvertisedLinks(n) == {l \in Range(NodeLinks(n)) : ~broken[l]}

IsLsaOf(x, e, l) ==
    /\ x.type = "ADVERT"
    /\ x.source = e.node
    /\ x.destination = peer(e.node, l)
    /\ x.seqnum = e.seq1
    /\ x.sent = time
    /\ Len(x.nbrs) = Cardinality(AdvertisedLinks(e.node))
    /\ {<<x.nbrs[i].nbr, x.nbrs[i].cost>> : i \in DOMAIN x.nbrs}
         = {<<peer(e.node, k), links[k].cost>> : k \in AdvertisedLinks(e.node)}

TimerEvents == {i \in DOMAIN evLog : evLog[i].kind = "send_advertisement"}

C23_AdvertiseAndPrune ==
    /\ []((proto = "ls" /\ LogCurrent) =>
            /\ Cardinality(TimerEvents) = IF time % ADVERT_INTERVAL = 0 THEN 1 ELSE 0
            /\ \A i \in TimerEvents :
                  /\ evLog[i].node = LogNode
                  /\ evLog[i].seq1 = evLog[i].seq0 + 1
                  /\ LSA_seqnum[LogNode] = evLog[i].seq1
                  /\ TablesSame(evLog[i])
                  /\ OnlyAppendsFrom(evLog[i], LogNode)
                  /\ \A l \in Range(NodeLinks(LogNode)) :
                        IF broken[l] THEN Appended(evLog[i], LogNode, l) = <<>>
                        ELSE /\ Len(Appended(evLog[i], LogNode, l)) = 1
                             /\ IsLsaOf(Appended(evLog[i], LogNode, l)[1], evLog[i], l)
                  /\ DOMAIN evLog[i].post.lsa
                       = {k \in DOMAIN evLog[i].pre.lsa :
                            evLog[i].pre.lsa[k].seqnum >= evLog[i].seq1 - 1}
                  /\ \A k \in DOMAIN evLog[i].post.lsa :
                        evLog[i].post.lsa[k] = evLog[i].pre.lsa[k]
                  /\ \A k \in DOMAIN LSA[LogNode] :
                        LSA[LogNode][k].seqnum >= LSA_seqnum[LogNode] - 1)
    /\ [][\A n \in Nodes : LSA_seqnum'[n] >= LSA_seqnum[n]]_vars

\* a router with a broken link advertised its remaining neighbour and pruned
\* a stored advertisement that was two rounds behind its own counter
C23_Witness ==
    /\ proto = "ls"
    /\ LogCurrent
    /\ \E i \in TimerEvents :
          /\ DOMAIN evLog[i].pre.lsa # DOMAIN evLog[i].post.lsa
          /\ \E l \in Range(NodeLinks(LogNode)) : broken[l]
          /\ \E l \in Range(NodeLinks(LogNode)) :
                Appended(evLog[i], LogNode, l) # <<>>

-----------------------------------------------------------------------------
(* C24 -- per-link FIFO, one packet per tick.  In its phase 1 a node pulls   *)
(* at most one packet from each of its links, the oldest one queued toward   *)
(* it, which leaves the queue, and touches no other queue.  Consequently the *)
(* packets a node sent on a link are received by the peer in the order sent, *)
(* none skipped, duplicated or reordered, while the link stays unbroken: at  *)
(* every moment the packets sent on a link in one direction since the link   *)
(* last broke (or the run was reset) and not yet received are exactly the    *)
(* contents of the queue of that direction, in the order sent, and every     *)
(* packet received so far was the oldest of them.                            *)

\* the step is node n's phase 1
IsPhase1Of(n) ==
    /\ pc \in DOMAIN StepSchedule
    /\ StepSchedule[pc] = [phase |-> "phase1", node |-> n]
    /\ pc' = pc + 1

C24_PerLinkFifo ==
    /\ [](/\ inOrder
          /\ \A l \in LinkIds : owed[l].d12 = q12[l] /\ owed[l].d21 = q21[l])
    /\ [][\A n \in Nodes : IsPhase1Of(n) =>
             /\ \A i, j \in DOMAIN packets'[n] :
                   packets'[n][i].link = packets'[n][j].link => i = j
             /\ \A i \in DOMAIN packets'[n] :
                   /\ packets'[n][i].link \in Range(NodeLinks(n))
                   /\ Toward(n, packets'[n][i].link) # <<>>
                   /\ packets'[n][i].p = Head(Toward(n, packets'[n][i].link))
             /\ \A l \in Range(NodeLinks(n)) :
                   Toward(n, l)' = IF Toward(n, l) = <<>> THEN <<>> ELSE Tail(Toward(n, l))
             /\ \A l \in Range(NodeLinks(n)) :
                   Toward(n, l) # <<>> => \E i \in DOMAIN packets'[n] : packets'[n][i].link = l
             /\ \A l \in LinkIds : Toward(peer(n, l), l)' = Toward(peer(n, l), l)
             /\ \A l \in LinkIds \ Range(NodeLinks(n)) : q12'[l] = q12[l] /\ q21'[l] = q21[l]]_vars

\* a node has pulled the oldest of three packets queued toward it on a link,
\* sent in two different ticks, and a packet from its other link as well
C24_Witness ==
    /\ inOrder
    /\ \E n \in Nodes :
          /\ Len(packets[n]) = 2
          /\ \E i \in DOMAIN packets[n] :
                /\ Len(Toward(n, packets[n][i].link)) >= 2
                /\ packets[n][i].p.sent <= Toward(n, packets[n][i].link)[1].sent
                /\ Toward(n, packets[n][i].link)[1].sent
                     < Toward(n, packets[n][i].link)[2].sent

-----------------------------------------------------------------------------
(* C25 -- the frame of HELLO handling.  Whenever a router has processed a    *)
(* HELLO received over link L at tick t, whatever address the HELLO is       *)
(* destined to: neighbors[L] is (t, the HELLO's source, L.cost), every other *)
(* neighbors entry is as before, routes, spcost and the LSA map are as       *)
(* before, the receive queue and the transmit queue are as before (the       *)
(* packet is not delivered), and no link queue has changed (the packet is    *)
(* not forwarded and nothing is sent).                                       *)

C25_HelloFrame ==
    LogCurrent =>
        \A i \in DOMAIN evLog :
            (evLog[i].kind = "process" /\ evLog[i].p.type = "HELLO") =>
                /\ DOMAIN evLog[i].post.nb = DOMAIN evLog[i].pre.nb \cup {evLog[i].link}
                /\ evLog[i].post.nb[evLog[i].link].time = time
                /\ evLog[i].post.nb[evLog[i].link].source = evLog[i].p.source
                /\ evLog[i].post.nb[evLog[i].link].cost = links[evLog[i].link].cost
                /\ \A l \in DOMAIN evLog[i].pre.nb \ {evLog[i].link} :
                      evLog[i].post.nb[l] = evLog[i].pre.nb[l]
                /\ evLog[i].post.rt = evLog[i].pre.rt
                /\ evLog[i].post.sc = evLog[i].pre.sc
                /\ evLog[i].post.lsa = evLog[i].pre.lsa
                /\ evLog[i].post.rq = evLog[i].pre.rq
                /\ evLog[i].post.tq = evLog[i].pre.tq
                /\ QueuesSame(evLog[i])

\* a router holding routes over both links and a neighbors entry for each
\* refreshed one entry on a HELLO addressed to a third node
C25_Witness ==
    /\ LogCurrent
    /\ \E i \in DOMAIN evLog :
          /\ evLog[i].kind = "process"
          /\ evLog[i].p.type = "HELLO"
          /\ evLog[i].p.destination \notin {evLog[i].node, evLog[i].p.source}
          /\ Cardinality(DOMAIN evLog[i].pre.nb) = 2
          /\ evLog[i].pre.nb[evLog[i].link].time < time
          /\ Cardinality(DOMAIN evLog[i].pre.rt) = 3
          /\ routes[evLog[i].node] = evLog[i].pre.rt

-----------------------------------------------------------------------------
(* C26 -- link-state tables change only at the recomputation tick.  Under    *)
(* the link-state protocol a step changes a router's routes or spcost only   *)
(* if it is a reset or that router's phase 2 of a tick t with                *)
(* t mod ADVERT_INTERVAL = ADVERT_INTERVAL / 2 (15), which is never a tick   *)
(* of the advertisement broadcast (t mod ADVERT_INTERVAL = 0); and every     *)
(* logged call of a phase 2 -- processing a HELLO or an advertisement,       *)
(* flooding it, forwarding, sending the periodic advertisement and pruning,  *)
(* expiring a neighbour -- leaves routes and spcost as they were.            *)

IsPhase2Of(n) ==
    /\ pc \in DOMAIN StepSchedule
    /\ StepSchedule[pc] = [phase |-> "phase2", node |-> n]
    /\ pc' = pc + 1

C26_RecomputeTickOnly ==
    /\ []((proto = "ls" /\ LogCurrent) =>
            \A i \in DOMAIN evLog :
                evLog[i].post.rt = evLog[i].pre.rt /\ evLog[i].post.sc = evLog[i].pre.sc)
    /\ [][proto = "ls" =>
            \A n \in Nodes :
                (routes'[n] # routes[n] \/ spcost'[n] # spcost[n]) =>
                    \/ resets' = resets + 1
                    \/ /\ IsPhase2Of(n)
                       /\ 2 * (time % ADVERT_INTERVAL) = ADVERT_INTERVAL
                       /\ time % ADVERT_INTERVAL # 0]_vars

\* tick 45: the router whose neighbour over a broken link expired in an
\* earlier tick has changed its tables only now
C26_Witness ==
    /\ proto = "ls"
    /\ LogCurrent
    /\ time = ADVERT_INTERVAL + 15
    /\ changedAt = time
    /\ \E l \in Range(NodeLinks(LogNode)) :
          /\ broken[l]
          /\ brokenAt[l] < HELLO_INTERVAL + 5
          /\ brokenAt[l] > HELLO_INTERVAL
          /\ l \notin DOMAIN neighbors[LogNode]
          /\ \A d \in DOMAIN routes[LogNode] : routes[LogNode][d] # l

-----------------------------------------------------------------------------
(* C27 -- one flood per advertisement.  As stated: over any run, every       *)
(* link-state router re-broadcasts a given (origin, seqnum) advertisement on *)
(* its links at most once (the origin's own broadcast by its timer is not    *)
(* counted).                                                                 *)

C27_AsStated ==
    proto = "ls" =>
        \A n \in Nodes : \A k \in DOMAIN floods[n] : floods[n][k] <= 1

-----------------------------------------------------------------------------
(* C28 -- link-state recovery after a link break.  As stated, for every      *)
(* loss-free link-state network: once a link is broken and the topology      *)
(* stays fixed, every router ends up with no route over a broken link, with  *)
(* the true shortest-path cost of the remaining graph for every destination  *)
(* it can still reach, and with no entry for any other destination.  The     *)
(* routers learn of the break from the advertisement round that follows it   *)
(* (at most ADVERT_INTERVAL ticks later) and recompute half a round after    *)
(* that, so the tables must be in that state once every broken link has been *)
(* broken for two advertisement rounds.                                      *)

\* links are broken, and the last break is two advertisement rounds back
BrokenForLong ==
    /\ AtTickStart
    /\ \E l \in LinkIds : broken[l]
    /\ \A l \in LinkIds :
          broken[l] => time > brokenAt[l] + 2 * ADVERT_INTERVAL

\* the addresses n can reach over links that are up
RECURSIVE Connected(_)
Connected(S) ==
    LET up == {l \in LinkIds : ~broken[l] /\ {links[l].end1, links[l].end2} \cap S # {}}
        more == UNION {{links[l].end1, links[l].end2} : l \in up}
    IN IF more \subseteq S THEN S ELSE Connected(S \cup more)

-----------------------------------------------------------------------------
(* C29 -- quiescence on the demonstration network.  With no loss and no link *)
(* break, under either protocol, the in-flight count step returns reaches 0  *)
(* at some tick after the DATA packet's start tick; and the link queues do   *)
(* not build up: the triggered re-advertisements and floods of one           *)
(* advertisement round have drained (in-flight count 0, every link queue     *)
(* empty) when the advertisement timer starts the next round, and no link    *)
(* queue ever holds more packets than the network has routers.               *)

QueuesEmpty == \A l \in LinkIds : q12[l] = <<>> /\ q21[l] = <<>>

DrainedEachRound ==
    (AtTickStart /\ time > 0 /\ time % ADVERT_INTERVAL = 0) =>
        pending = 0 /\ QueuesEmpty

QueuesBounded ==
    \A l \in LinkIds : /\ Len(q12[l]) <= Cardinality(Nodes)
                       /\ Len(q21[l]) <= Cardinality(Nodes)

C29_Quiescence == <>Quiescent /\ [](DrainedEachRound /\ QueuesBounded)

\* the network is quiet again after the floods of a later round
C29_Witness ==
    /\ Quiescent
    /\ QueuesEmpty
    /\ time > 2 * ADVERT_INTERVAL
    /\ time % ADVERT_INTERVAL # 0
    /\ Len(Delivered("A", "H")) = 1

=============================================================================
